---- MODULE Spec2Model ----
(***************************************************************************)
(* Model of the Gmail synchronisation engine (GmailSyncService.syncUser   *)
(* and the metadata store it writes to).                                  *)
(*                                                                         *)
(* The metadata store is modelled table by table as sets of rows, with    *)
(* the foreign keys and cascade rules of the schema.  A sync cycle is a   *)
(* process that walks through the awaits of syncUser; every await on the  *)
(* remote mailbox, the blob store or the metadata store can throw.         *)
(***************************************************************************)
EXTENDS Integers, Sequences, FiniteSets, TLC

(* ------------------------------ bounds --------------------------------- *)
\* number of sync cycles started in one behaviour
MaxCycles == 2
\* number of injected failures (throwing awaits) in one behaviour
MaxFail == 1
\* invocations of the scheduled-sync handler
MaxRuns == 2
\* length of the short filenames
MaxLen == 3
\* parts of a MIME tree, the root included
MaxNodes == 4

(* ------------------------- program constants --------------------------- *)
\* getAllThreads(1000): the per-cycle fetch bound, scaled down from 1000
maxResults == 2

NULL == "null"
UserIds == {1, 2}
\* cycle processes; the sequential specification only ever runs process 1
Procs == {1, 2}
ThreadIds == {"t1", "t2"}

(* --------------------------- remote payloads --------------------------- *)
\* GmailMessage as the engine reads it: id, labelIds, whether the MIME tree
\* holds an HTML body (extractHtmlBody # null) and the attachment ids of the
\* parts extractAttachments returns, in order.
GmailMessage(id) ==
  CASE id = "m1" -> [id |-> "m1", labelIds |-> {"INBOX", "UNREAD"},
                     html |-> TRUE, parts |-> <<"a1", "a2">>]
    [] id = "m2" -> [id |-> "m2", labelIds |-> {"INBOX"},
                     html |-> FALSE, parts |-> <<>>]
    [] OTHER     -> [id |-> "m3", labelIds |-> {},
                     html |-> TRUE, parts |-> <<"a1", "a1">>]

\* GmailThread returned by getThreadDetails: t1 lists message m1 twice, the
\* message of t2 has two parts with the same attachment id
GmailThread(tid) ==
  IF tid = "t1"
  THEN [id |-> "t1", messages |-> <<GmailMessage("m1"), GmailMessage("m2"), GmailMessage("m1")>>]
  ELSE [id |-> "t2", messages |-> <<GmailMessage("m3")>>]

\* the remote label list returned by getLabels
GmailLabels == <<"INBOX", "UNREAD">>

Min(a, b) == IF a < b THEN a ELSE b
Range(s) == {s[i] : i \in DOMAIN s}

\* the remote mailboxes: every listing of at most maxResults conversation
\* ids (an id may be listed twice), and the listings one longer than that
\* whose last conversation is not among the first maxResults
RemoteLists ==
  UNION {[1..n -> ThreadIds] : n \in 0..maxResults}
  \cup {r \in [1..(maxResults + 1) -> ThreadIds] :
          \A i \in 1..maxResults : r[i] # r[maxResults + 1]}

\* mutation: the listing ignores maxResults
getAllThreadsUnbounded(remote, limit) ==
  [i \in 1..Len(remote) |-> GmailThread(remote[i])]

\* getAllThreads(maxResults): the first maxResults listed conversations, each
\* with its detail
getAllThreads(remote, limit) ==
  [i \in 1..Min(Len(remote), limit) |-> GmailThread(remote[i])]

(* ------------------------------ blob keys ------------------------------ *)
\* emails/{userId}/bodies/{messageId}.html
BodyKey(userId, messageId) == <<"bodies", userId, messageId>>
\* emails/{userId}/attachments/{messageId}/{attachmentId}/{filename}
AttachmentKey(userId, messageId, attachmentId) ==
  <<"attachments", userId, messageId, attachmentId>>

VARIABLES users, lastSyncAt, labels, threads, threadLabels, messages,
          attachments, syncLogs, s3, seq, clock, cyc, fails, cycles, lastRun,
          oauthTokens, sched, api, lib

db == <<users, lastSyncAt, labels, threads, threadLabels, messages,
        attachments, syncLogs>>
vars == <<users, lastSyncAt, labels, threads, threadLabels, messages,
          attachments, syncLogs, s3, seq, clock, cyc, fails, cycles, lastRun,
          oauthTokens, sched, api, lib>>

\* the state outside syncUser: the users that have both OAuth tokens, the
\* scheduled-sync handler, the session and response of the sync router, and
\* the arguments and result of a call of a function of the libraries
schedVars == <<oauthTokens, sched, api, lib>>

\* no function of the libraries is being called
NoCall == [fn |-> "none"]

\* the session of user u (ctx.session.user.id) before a call of the router
Session(u) == [userId |-> u, response |-> [op |-> "none"]]

NoResult == [success |-> FALSE, threadsSynced |-> 0, messagesSynced |-> 0,
             attachmentsSynced |-> 0, error |-> NULL, thrown |-> FALSE]
ZeroCounts == [threadsSynced |-> 0, messagesSynced |-> 0, attachmentsSynced |-> 0]

\* ghost bookkeeping of one cycle, used only to state properties
\*   throws      number of awaits of the cycle that threw
\*   fatalAt     the step whose throw reached the catch block of syncUser
\*   rows, puts  rows inserted into labels, threads, thread_labels, messages
\*               and attachments; blob-store puts that resolved
\*   pre...      the store when the cycle started
\*   remote      the remote listing, listed = getAllThreads resolved
\*   visited     indexes of gmailThreads for which syncThread was called
\*   threw       indexes of gmailThreads for which syncThread threw
\*   pruned      the thread rows deleted by cleanupDeletedThreads
\*   last, attOut  outcome of the latest syncMessage and of its attachments
\*   prev        the previous call of syncUser for the same user
NoGhost == [throws |-> 0, fatalAt |-> NULL, rows |-> 0, puts |-> 0,
            bodyPuts |-> 0, cancelled |-> FALSE,
            preThreads |-> {}, preMessages |-> {}, preAttachments |-> {},
            preLastSyncAt |-> 0, remote |-> <<>>, listed |-> FALSE,
            visited |-> {}, threw |-> {}, pruned |-> {},
            last |-> NULL, attOut |-> <<>>,
            prev |-> [valid |-> FALSE, remote |-> <<>>, success |-> FALSE,
                      throws |-> 0]]

IdleCycle == [pc |-> "idle", userId |-> 0, syncLogId |-> 0, syncStartTime |-> 0,
              gmailThreads |-> <<>>, ti |-> 0, mi |-> 0, threadId |-> 0,
              existingThread |-> {}, thr |-> ZeroCounts, tot |-> ZeroCounts,
              error |-> NULL, result |-> NoResult, g |-> NoGhost]

\* a request to /api/sync/scheduled that has not been made
NoRequest == [method |-> NULL, authorization |-> NULL, vercelCron |-> FALSE]

\* the scheduled-sync handler before its first invocation, CRON_SECRET being
\* cronSecret
IdleSched(cronSecret) ==
  [pc |-> "off", cronSecret |-> cronSecret, req |-> NoRequest,
   usersNeedingSync |-> <<>>, i |-> 0, successCount |-> 0, errorCount |-> 0,
   status |-> 0, totalUsers |-> 0,
   g |-> [runs |-> 0, now |-> 0, lastSyncAt |-> <<>>, started |-> <<>>,
          results |-> <<>>, failed |-> {}]]

(* ------------------------------- Init ---------------------------------- *)
\* The store after user 2 has completed one clean cycle at time 1 over a
\* mailbox holding conversation t2, and before user 1 has ever synced.
InitStore ==
  /\ users = {1, 2}
  /\ lastSyncAt = [u \in UserIds |-> IF u = 2 THEN 1 ELSE 0]
  /\ labels = {[id |-> 1, userId |-> 2, labelId |-> "INBOX"],
               [id |-> 2, userId |-> 2, labelId |-> "UNREAD"]}
  /\ threads = {[id |-> 1, gmailThreadId |-> "t2", userId |-> 2,
                 isUnread |-> FALSE, isStarred |-> FALSE,
                 isImportant |-> FALSE, isDraft |-> FALSE, lastSeenAt |-> 1]}
  /\ threadLabels = {}
  /\ messages = {[id |-> 1, gmailMessageId |-> "m3", threadId |-> 1,
                  bodyS3Key |-> BodyKey(2, "m3"), isUnread |-> FALSE]}
  /\ attachments = {[id |-> 1, messageId |-> 1, gmailAttachmentId |-> "a1",
                     s3Key |-> AttachmentKey(2, "m3", "a1")],
                    [id |-> 2, messageId |-> 1, gmailAttachmentId |-> "a1",
                     s3Key |-> AttachmentKey(2, "m3", "a1")]}
  /\ syncLogs = {[id |-> 1, userId |-> 2, status |-> "success",
                  threadsSynced |-> 1, messagesSynced |-> 1,
                  errorMessage |-> NULL, completedAt |-> 1]}
  /\ s3 = {BodyKey(2, "m3"), AttachmentKey(2, "m3", "a1")}
  /\ seq = [labels |-> 3, threads |-> 2, messages |-> 2, attachments |-> 3,
            syncLogs |-> 2]
  /\ clock = 1
  /\ cyc = [p \in Procs |-> IdleCycle]
  /\ fails = 0
  /\ cycles = 0
  /\ lastRun = [u \in UserIds |-> NoGhost.prev]

\* both users have their OAuth tokens, CRON_SECRET is configured, the
\* scheduled handler has not run
Init ==
  /\ InitStore
  /\ oauthTokens = UserIds
  /\ sched = IdleSched("secret")
  /\ api = Session(1)
  /\ lib = NoCall

(* -------------------------- failure injection -------------------------- *)
\* the outcomes of one await: TRUE = resolves, FALSE = throws
Oks == IF fails < MaxFail THEN {TRUE, FALSE} ELSE {TRUE}

\* bookkeeping of an await's outcome
Fail(ok) == fails' = IF ok THEN fails ELSE fails + 1

Mark(g, ok) == IF ok THEN g ELSE [g EXCEPT !.throws = @ + 1]

\* mutation: the throw is swallowed and the cycle goes to its success ending
RethrowSwallowed(c, step, error) ==
  [c EXCEPT !.pc = "finalize", !.g = [@ EXCEPT !.fatalAt = step]]

\* a throw that reaches the catch block of syncUser
Rethrow(c, step, error) ==
  [c EXCEPT !.pc = "catch", !.error = error,
            !.g = [@ EXCEPT !.fatalAt = step]]

(* ------------------------- syncUser: prelude --------------------------- *)
\* startSyncLog + `new Date()`.  The insert into sync_logs is outside the
\* try block: when it throws (foreign key on user_id, or a store failure)
\* syncUser rejects and no audit record exists.
StartCycle(p, u) ==
  /\ cyc[p].pc \in {"idle", "done"}
  /\ cycles < MaxCycles
  /\ cycles' = cycles + 1
  /\ \E ok \in Oks :
       /\ Fail(ok)
       /\ LET g0 == [NoGhost EXCEPT !.preThreads = threads,
                                    !.preMessages = messages,
                                    !.preAttachments = attachments,
                                    !.preLastSyncAt = lastSyncAt[u],
                                    !.prev = lastRun[u]]
          IN IF ok /\ u \in users
             THEN /\ syncLogs' = syncLogs \cup
                       {[id |-> seq.syncLogs, userId |-> u, status |-> "running",
                         threadsSynced |-> 0, messagesSynced |-> 0,
                         errorMessage |-> NULL, completedAt |-> 0]}
                  /\ seq' = [seq EXCEPT !.syncLogs = @ + 1]
                  /\ clock' = clock + 1
                  /\ cyc' = [cyc EXCEPT ![p] =
                       [IdleCycle EXCEPT !.pc = "user", !.userId = u,
                                         !.syncLogId = seq.syncLogs,
                                         !.syncStartTime = clock + 1,
                                         !.g = g0]]
             ELSE /\ cyc' = [cyc EXCEPT ![p] =
                       [IdleCycle EXCEPT !.pc = "done", !.userId = u,
                                         !.result = [NoResult EXCEPT !.thrown = TRUE],
                                         !.g = Mark(g0, FALSE)]]
                  /\ UNCHANGED <<syncLogs, seq, clock>>
  /\ UNCHANGED <<users, lastSyncAt, labels, threads, threadLabels, messages,
                 attachments, s3, lastRun>>

\* db.select().from(users).where(eq(users.id, userId)).limit(1)
SelectUser(p) ==
  LET c == cyc[p] IN
  /\ c.pc = "user"
  /\ \E ok \in Oks :
       /\ Fail(ok)
       /\ cyc' = [cyc EXCEPT ![p] =
            IF ~ok THEN Rethrow([c EXCEPT !.g = Mark(c.g, FALSE)], "user", "store error")
            ELSE IF c.userId \notin users
                 THEN Rethrow(c, "user", "User not found")
                 ELSE [c EXCEPT !.pc = "labels"]]
  /\ UNCHANGED <<db, s3, seq, clock, cycles, lastRun>>
  /\ UNCHANGED schedVars

(* ------------------------ syncUser: syncLabels ------------------------- *)
\* the loop of syncLabels over the first k remote labels
RECURSIVE InsertLabels(_, _, _, _, _)
InsertLabels(rows, next, userId, list, k) ==
  IF k = 0 THEN [rows |-> rows, next |-> next]
  ELSE LET r == InsertLabels(rows, next, userId, list, k - 1)
           existingLabel == {l \in r.rows : l.userId = userId /\ l.labelId = list[k]}
       IN IF existingLabel = {}
          THEN [rows |-> r.rows \cup {[id |-> r.next, userId |-> userId,
                                       labelId |-> list[k]]},
                next |-> r.next + 1]
          ELSE r

\* syncLabels: getLabels, then select-and-insert per label.  A throw (the
\* remote call, or a store statement after k labels were handled) is
\* rethrown and aborts the cycle.
SyncLabels(p) ==
  LET c == cyc[p] IN
  /\ c.pc = "labels"
  /\ \E ok \in Oks :
       /\ Fail(ok)
       /\ \E k \in IF ok THEN {Len(GmailLabels)} ELSE 0..(Len(GmailLabels) - 1) :
            LET r == InsertLabels(labels, seq.labels, c.userId, GmailLabels, k)
                fk == c.userId \in users \/ r.rows = labels
                g1 == [c.g EXCEPT !.rows = @ + Cardinality(r.rows \ labels)]
            IN IF fk
               THEN /\ labels' = r.rows
                    /\ seq' = [seq EXCEPT !.labels = r.next]
                    /\ cyc' = [cyc EXCEPT ![p] =
                         IF ok THEN [c EXCEPT !.pc = "list", !.g = g1]
                         ELSE Rethrow([c EXCEPT !.g = Mark(g1, FALSE)], "labels",
                                      IF k = 0 THEN "Failed to fetch Gmail labels"
                                      ELSE "store error")]
               ELSE /\ cyc' = [cyc EXCEPT ![p] =
                         Rethrow([c EXCEPT !.g = Mark(c.g, ok)], "labels", "store error")]
                    /\ UNCHANGED <<labels, seq>>
  /\ UNCHANGED <<users, lastSyncAt, threads, threadLabels, messages,
                 attachments, syncLogs, s3, clock, cycles, lastRun>>
  /\ UNCHANGED schedVars

(* ---------------------- syncUser: getAllThreads ------------------------ *)
\* where the loop over gmailThreads continues after thread number i
AfterThread(c, i) ==
  IF i >= Len(c.gmailThreads) THEN "cleanup" ELSE "thread"

ListThreads(p) ==
  LET c == cyc[p] IN
  /\ c.pc = "list"
  /\ \E ok \in Oks :
       /\ Fail(ok)
       /\ IF ok
          THEN \E remote \in RemoteLists :
                 LET fetched == getAllThreads(remote, maxResults)
                     c1 == [c EXCEPT !.gmailThreads = fetched, !.ti = 1,
                                     !.g = [c.g EXCEPT !.remote = remote,
                                                       !.listed = TRUE]]
                 IN cyc' = [cyc EXCEPT ![p] = [c1 EXCEPT !.pc = AfterThread(c1, 0)]]
          ELSE cyc' = [cyc EXCEPT ![p] =
                 Rethrow([c EXCEPT !.g = Mark(c.g, FALSE)], "list",
                         "Failed to fetch Gmail threads")]
  /\ UNCHANGED <<db, s3, seq, clock, cycles, lastRun>>
  /\ UNCHANGED schedVars

(* ------------------------ syncUser: syncThread ------------------------- *)
\* mutation: no try around syncThread, the throw reaches the catch block of
\* syncUser
ThreadThrewUncaught(c) ==
  [c EXCEPT !.pc = "catch", !.error = "store error",
            !.g = [c.g EXCEPT !.threw = @ \cup {c.ti}]]

\* the catch of the per-thread try in syncUser: log and go on
ThreadThrew(c) ==
  [c EXCEPT !.pc = AfterThread(c, c.ti), !.ti = c.ti + 1, !.thr = ZeroCounts,
            !.g = [c.g EXCEPT !.threw = @ \cup {c.ti}]]

\* syncThread returns: syncUser adds its counts and goes on
ThreadReturned(c) ==
  [c EXCEPT !.pc = AfterThread(c, c.ti), !.ti = c.ti + 1, !.thr = ZeroCounts,
            !.tot = [threadsSynced |-> @.threadsSynced + c.thr.threadsSynced,
                     messagesSynced |-> @.messagesSynced + c.thr.messagesSynced,
                     attachmentsSynced |-> @.attachmentsSynced + c.thr.attachmentsSynced]]

\* the message loop of syncThread starts, or is empty
EnterMessages(c) ==
  IF Len(c.gmailThreads[c.ti].messages) = 0
  THEN ThreadReturned(c)
  ELSE [c EXCEPT !.pc = "msg", !.mi = 1]

\* mutation: the lookup before the insert never finds the row
ExistingThreadNeverFound(userId, gmailThreadId) == {}

\* select from threads where userId = .. and gmailThreadId = ..
ExistingThread(userId, gmailThreadId) ==
  {t \in threads : t.userId = userId /\ t.gmailThreadId = gmailThreadId}

\* syncThread, first await: select the thread by (userId, gmailThreadId),
\* limit 1.  With several matching rows the store may return any of them.
LookupThread(p) ==
  LET c == cyc[p]
      gmailThread == c.gmailThreads[c.ti]
      found == ExistingThread(c.userId, gmailThread.id)
      c0 == [c EXCEPT !.g = [c.g EXCEPT !.visited = @ \cup {c.ti}]]
  IN
  /\ c.pc = "thread"
  /\ \E ok \in Oks :
       /\ Fail(ok)
       /\ IF ok
          THEN \E existingThread \in IF found = {} THEN {{}} ELSE {{t} : t \in found} :
                 cyc' = [cyc EXCEPT ![p] =
                   [c0 EXCEPT !.pc = "threadWrite", !.existingThread = existingThread]]
          ELSE cyc' = [cyc EXCEPT ![p] = ThreadThrew([c0 EXCEPT !.g = Mark(c0.g, FALSE)])]
  /\ UNCHANGED <<db, s3, seq, clock, cycles, lastRun>>
  /\ UNCHANGED schedVars

\* gmailThread.messages.some(msg => msg.labelIds?.includes(label))
SomeLabel(gmailThread, label) ==
  \E i \in DOMAIN gmailThread.messages : label \in gmailThread.messages[i].labelIds

\* syncThreadLabels: the rows of `labels` whose labelId is among the label
\* ids of the messages (the query has no condition on the user), one
\* thread_labels row for each
ThreadLabelInserts(threadId, gmailMessages) ==
  LET labelIds == UNION {gmailMessages[i].labelIds : i \in DOMAIN gmailMessages}
      dbLabels == {l \in labels : l.labelId \in labelIds}
  IN {[threadId |-> threadId, labelId |-> l.id] : l \in dbLabels}

\* the outcomes of the insert branch of syncThread
ThreadInsertOutcomes ==
  IF fails < MaxFail THEN {"ok", "insert throws", "labels throw"} ELSE {"ok"}

\* mutation: the update refreshes the flags from the fetched conversation
UpdateExistingThreadRefreshed(t, gmailThread, syncStartTime) ==
  [t EXCEPT !.lastSeenAt = syncStartTime,
            !.isUnread = SomeLabel(gmailThread, "UNREAD"),
            !.isStarred = SomeLabel(gmailThread, "STARRED"),
            !.isImportant = SomeLabel(gmailThread, "IMPORTANT"),
            !.isDraft = SomeLabel(gmailThread, "DRAFT")]

\* update threads set lastSeenAt = syncStartTime where id = threadId
UpdateExistingThread(t, gmailThread, syncStartTime) ==
  [t EXCEPT !.lastSeenAt = syncStartTime]

\* mutation: the store rejects the insert of a second row for the same
\* (userId, gmailThreadId), as an enforced unique index would
WriteThreadOnConflict(p) ==
  LET c == cyc[p]
      gmailThread == c.gmailThreads[c.ti]
      newThread == [id |-> seq.threads, gmailThreadId |-> gmailThread.id,
                    userId |-> c.userId,
                    isUnread |-> SomeLabel(gmailThread, "UNREAD"),
                    isStarred |-> SomeLabel(gmailThread, "STARRED"),
                    isImportant |-> SomeLabel(gmailThread, "IMPORTANT"),
                    isDraft |-> SomeLabel(gmailThread, "DRAFT"),
                    lastSeenAt |-> c.syncStartTime]
  IN
  /\ c.pc = "threadWrite"
  /\ IF c.existingThread # {}
     THEN /\ threads' = {IF t \in c.existingThread
                          THEN UpdateExistingThread(t, gmailThread, c.syncStartTime)
                          ELSE t : t \in threads}
          /\ cyc' = [cyc EXCEPT ![p] = EnterMessages(
               [c EXCEPT !.threadId = (CHOOSE t \in c.existingThread : TRUE).id])]
          /\ UNCHANGED <<threadLabels, seq>>
     ELSE IF ExistingThread(c.userId, gmailThread.id) # {}
     THEN /\ cyc' = [cyc EXCEPT ![p] = ThreadThrew(c)]
          /\ UNCHANGED <<threads, threadLabels, seq>>
     ELSE /\ threads' = threads \cup {newThread}
          /\ seq' = [seq EXCEPT !.threads = @ + 1]
          /\ threadLabels' = threadLabels
                \cup ThreadLabelInserts(newThread.id, gmailThread.messages)
          /\ cyc' = [cyc EXCEPT ![p] = EnterMessages(
               [c EXCEPT !.threadId = newThread.id,
                         !.thr = [ZeroCounts EXCEPT !.threadsSynced = 1]])]
  /\ UNCHANGED <<users, lastSyncAt, labels, messages, attachments, syncLogs,
                 s3, clock, cycles, lastRun, fails>>
  /\ UNCHANGED schedVars

\* syncThread, second part: insert the thread and its label rows, or update
\* lastSeenAt of the row found
WriteThread(p) ==
  LET c == cyc[p]
      gmailThread == c.gmailThreads[c.ti]
  IN
  /\ c.pc = "threadWrite"
  /\ IF c.existingThread = {}
     THEN IF Len(gmailThread.messages) = 0
          THEN \* lastMessage is undefined: reading internalDate throws
               /\ cyc' = [cyc EXCEPT ![p] = ThreadThrew(c)]
               /\ UNCHANGED <<threads, threadLabels, seq, fails>>
          ELSE \E out \in ThreadInsertOutcomes :
                 LET newThread == [id |-> seq.threads, gmailThreadId |-> gmailThread.id,
                                   userId |-> c.userId,
                                   isUnread |-> SomeLabel(gmailThread, "UNREAD"),
                                   isStarred |-> SomeLabel(gmailThread, "STARRED"),
                                   isImportant |-> SomeLabel(gmailThread, "IMPORTANT"),
                                   isDraft |-> SomeLabel(gmailThread, "DRAFT"),
                                   lastSeenAt |-> c.syncStartTime]
                     inserts == ThreadLabelInserts(newThread.id, gmailThread.messages)
                 IN /\ Fail(out = "ok")
                    /\ IF out = "insert throws" \/ c.userId \notin users
                       THEN /\ cyc' = [cyc EXCEPT ![p] =
                                 ThreadThrew([c EXCEPT !.g = Mark(c.g, out = "ok")])]
                            /\ UNCHANGED <<threads, threadLabels, seq>>
                       ELSE /\ threads' = threads \cup {newThread}
                            /\ seq' = [seq EXCEPT !.threads = @ + 1]
                            /\ IF out = "labels throw"
                               THEN /\ UNCHANGED threadLabels
                                    /\ cyc' = [cyc EXCEPT ![p] = ThreadThrew(
                                         [c EXCEPT !.g = [Mark(c.g, FALSE) EXCEPT !.rows = @ + 1]])]
                               ELSE /\ threadLabels' = threadLabels \cup inserts
                                    /\ cyc' = [cyc EXCEPT ![p] = EnterMessages(
                                         [c EXCEPT !.threadId = newThread.id,
                                                   !.thr = [ZeroCounts EXCEPT !.threadsSynced = 1],
                                                   !.g = [c.g EXCEPT !.rows =
                                                           @ + 1 + Cardinality(inserts \ threadLabels)]])]
     ELSE \E ok \in Oks :
            LET threadId == (CHOOSE t \in c.existingThread : TRUE).id IN
            /\ Fail(ok)
            /\ UNCHANGED <<threadLabels, seq>>
            /\ IF ok
               THEN /\ threads' = {IF t.id = threadId
                                    THEN UpdateExistingThread(t, gmailThread, c.syncStartTime)
                                    ELSE t : t \in threads}
                    /\ cyc' = [cyc EXCEPT ![p] = EnterMessages([c EXCEPT !.threadId = threadId])]
               ELSE /\ UNCHANGED threads
                    /\ cyc' = [cyc EXCEPT ![p] = ThreadThrew([c EXCEPT !.g = Mark(c.g, FALSE)])]
  /\ UNCHANGED <<users, lastSyncAt, labels, messages, attachments, syncLogs,
                 s3, clock, cycles, lastRun>>
  /\ UNCHANGED schedVars

(* ------------------------ syncThread: syncMessage ---------------------- *)
AttachmentOutcomes == {"ok", "fetch throws", "upload throws", "insert throws"}

\* mutation: one try around the whole attachment loop, the first throw ends
\* the loop
SyncAttachmentsOneTry(parts, f, k, messageId, userId, gmailMessageId, next) ==
  LET done == {j \in 1..k : \A i \in 1..j : f[i] = "ok"}
      n == Cardinality(done)
  IN [rows |-> {[id |-> next + j - 1, messageId |-> messageId,
                 gmailAttachmentId |-> parts[j],
                 s3Key |-> AttachmentKey(userId, gmailMessageId, parts[j])] : j \in done},
      next |-> next + n,
      keys |-> {AttachmentKey(userId, gmailMessageId, parts[j]) : j \in done}
               \cup (IF n < k /\ f[n + 1] = "insert throws"
                     THEN {AttachmentKey(userId, gmailMessageId, parts[n + 1])}
                     ELSE {}),
      attachmentsSynced |-> n]

\* mutation: the attachment row is inserted before the upload, and stays
\* when the upload throws
SyncAttachmentsRowFirst(parts, f, k, messageId, userId, gmailMessageId, next) ==
  LET ins == {j \in 1..k : f[j] \in {"ok", "upload throws"}}
      ok == {j \in 1..k : f[j] = "ok"}
  IN [rows |-> {[id |-> next + Cardinality({i \in ins : i < j}),
                 messageId |-> messageId, gmailAttachmentId |-> parts[j],
                 s3Key |-> AttachmentKey(userId, gmailMessageId, parts[j])] : j \in ins},
      next |-> next + Cardinality(ins),
      keys |-> {AttachmentKey(userId, gmailMessageId, parts[j]) : j \in ok},
      attachmentsSynced |-> Cardinality(ok)]

\* the attachment loop of syncMessage over the first k parts; f gives the
\* outcome of each part.  Each part has its own try: a throw of getAttachment,
\* uploadAttachment or the insert is logged and the loop goes on.
RECURSIVE SyncAttachments(_, _, _, _, _, _, _)
SyncAttachments(parts, f, k, messageId, userId, gmailMessageId, next) ==
  IF k = 0 THEN [rows |-> {}, next |-> next, keys |-> {}, attachmentsSynced |-> 0]
  ELSE LET r == SyncAttachments(parts, f, k - 1, messageId, userId, gmailMessageId, next)
           key == AttachmentKey(userId, gmailMessageId, parts[k])
       IN CASE f[k] = "ok" ->
                 [rows |-> r.rows \cup {[id |-> r.next, messageId |-> messageId,
                                         gmailAttachmentId |-> parts[k], s3Key |-> key]},
                  next |-> r.next + 1, keys |-> r.keys \cup {key},
                  attachmentsSynced |-> r.attachmentsSynced + 1]
            [] f[k] = "insert throws" -> [r EXCEPT !.keys = @ \cup {key}]
            [] OTHER -> r

\* number of blob-store puts that resolved in the attachment loop
AttachmentPuts(f) == Cardinality({k \in DOMAIN f : f[k] \in {"ok", "insert throws"}})
AttachmentThrows(f) == Cardinality({k \in DOMAIN f : f[k] # "ok"})

\* syncThread's message loop goes on after message number c.mi
AfterMessage(c) ==
  IF c.mi >= Len(c.gmailThreads[c.ti].messages)
  THEN ThreadReturned(c)
  ELSE [c EXCEPT !.mi = c.mi + 1]

\* mutation: no try around syncMessage, the throw ends syncThread
MessageThrewUncaught(c) == ThreadThrew(c)

\* syncMessage threw: the catch of the per-message try in syncThread logs
\* it and the loop goes on
MessageThrew(c) == AfterMessage(c)

\* mutation: the lookup before the insert never finds the row
ExistingMessageNeverFound(threadId, gmailMessageId) == {}

\* mutation: the lookup does not compare the thread
ExistingMessageAnyThread(threadId, gmailMessageId) ==
  {m \in messages : m.gmailMessageId = gmailMessageId}

\* select from messages where threadId = .. and gmailMessageId = ..
ExistingMessage(threadId, gmailMessageId) ==
  {m \in messages : m.threadId = threadId /\ m.gmailMessageId = gmailMessageId}

\* the row syncMessage inserts
NewMessage(id, threadId, userId, gmailMessage) ==
  [id |-> id, gmailMessageId |-> gmailMessage.id, threadId |-> threadId,
   bodyS3Key |-> IF gmailMessage.html THEN BodyKey(userId, gmailMessage.id) ELSE NULL,
   isUnread |-> "UNREAD" \in gmailMessage.labelIds]

\* the outcomes of the awaits of syncMessage before the attachment loop
MessageOutcomes(exists, html) ==
  IF fails >= MaxFail THEN {"ok"}
  ELSE {"ok", "lookup throws"}
       \cup (IF exists THEN {} ELSE {"insert throws"})
       \cup (IF ~exists /\ html THEN {"upload throws"} ELSE {})

\* syncMessage: skip a message that has a row; otherwise upload the HTML
\* body, insert the row, then fetch, upload and insert each attachment.
\* A throw before the attachment loop is rethrown to syncThread.
SyncMessage(p) ==
  LET c == cyc[p]
      gmailMessage == c.gmailThreads[c.ti].messages[c.mi]
      existingMessage == ExistingMessage(c.threadId, gmailMessage.id)
      parts == gmailMessage.parts
      bodyKey == BodyKey(c.userId, gmailMessage.id)
      newMessage == NewMessage(seq.messages, c.threadId, c.userId, gmailMessage)
      fkOk == c.threadId \in {t.id : t \in threads}
      G(g, out, n) == [g EXCEPT !.throws = @ + n, !.last = out, !.attOut = <<>>]
  IN
  /\ c.pc = "msg"
  /\ \E out \in MessageOutcomes(existingMessage # {}, gmailMessage.html) :
       IF out = "lookup throws"
       THEN /\ fails' = fails + 1
            /\ cyc' = [cyc EXCEPT ![p] = MessageThrew([c EXCEPT !.g = G(@, out, 1)])]
            /\ UNCHANGED <<messages, attachments, s3, seq>>
       ELSE IF existingMessage # {}
       THEN /\ cyc' = [cyc EXCEPT ![p] = AfterMessage([c EXCEPT !.g = G(@, "exists", 0)])]
            /\ UNCHANGED <<messages, attachments, s3, seq, fails>>
       ELSE IF out = "upload throws"
       THEN /\ fails' = fails + 1
            /\ cyc' = [cyc EXCEPT ![p] = MessageThrew([c EXCEPT !.g = G(@, out, 1)])]
            /\ UNCHANGED <<messages, attachments, s3, seq>>
       ELSE IF out = "insert throws" \/ ~fkOk
       THEN /\ fails' = IF out = "ok" THEN fails ELSE fails + 1
            /\ s3' = IF gmailMessage.html THEN s3 \cup {bodyKey} ELSE s3
            /\ cyc' = [cyc EXCEPT ![p] = MessageThrew(
                 [c EXCEPT !.g = [G(@, "insert throws", IF out = "ok" THEN 0 ELSE 1)
                                    EXCEPT !.puts = @ + IF gmailMessage.html THEN 1 ELSE 0,
                                           !.bodyPuts = @ + IF gmailMessage.html THEN 1 ELSE 0]])]
            /\ UNCHANGED <<messages, attachments, seq>>
       ELSE \E f \in [DOMAIN parts -> AttachmentOutcomes] :
              /\ fails + AttachmentThrows(f) <= MaxFail
              /\ LET r == SyncAttachments(parts, f, Len(parts), newMessage.id,
                                          c.userId, gmailMessage.id, seq.attachments)
                 IN /\ fails' = fails + AttachmentThrows(f)
                    /\ messages' = messages \cup {newMessage}
                    /\ attachments' = attachments \cup r.rows
                    /\ s3' = s3 \cup r.keys
                              \cup (IF gmailMessage.html THEN {bodyKey} ELSE {})
                    /\ seq' = [seq EXCEPT !.messages = @ + 1, !.attachments = r.next]
                    /\ cyc' = [cyc EXCEPT ![p] = AfterMessage(
                         [c EXCEPT !.thr = [@ EXCEPT !.messagesSynced = @ + 1,
                                                     !.attachmentsSynced = @ + r.attachmentsSynced],
                                   !.g = [G(@, "inserted", AttachmentThrows(f)) EXCEPT
                                            !.attOut = f,
                                            !.rows = @ + 1 + Cardinality(r.rows),
                                            !.puts = @ + AttachmentPuts(f)
                                                       + IF gmailMessage.html THEN 1 ELSE 0,
                                            !.bodyPuts = @ + IF gmailMessage.html THEN 1 ELSE 0]])]
  /\ UNCHANGED <<users, lastSyncAt, labels, threads, threadLabels, syncLogs,
                 clock, cycles, lastRun>>
  /\ UNCHANGED schedVars

(* ------------------- syncUser: cleanupDeletedThreads ------------------- *)
\* mutation: messages.thread_id without ON DELETE CASCADE
MessagesOfNoCascade(threadIds) == {}

\* ON DELETE CASCADE from threads: the tables after the threads with the
\* given row ids are deleted
MessagesOf(threadIds) == {m \in messages : m.threadId \in threadIds}
AttachmentsOf(msgs) == {a \in attachments : a.messageId \in {m.id : m \in msgs}}

\* mutation: the comparison with the cycle's start time is reversed
DeletedThreadsReversed(userId, syncStartTime) ==
  {t \in threads : t.userId = userId /\ t.lastSeenAt > syncStartTime}

\* select from threads where userId = .. and lastSeenAt < syncStartTime
DeletedThreads(userId, syncStartTime) ==
  {t \in threads : t.userId = userId /\ t.lastSeenAt < syncStartTime}

\* select the user's threads with lastSeenAt < syncStartTime, delete them by
\* id; a throw is rethrown and aborts the cycle
Cleanup(p) ==
  LET c == cyc[p]
      deletedThreads == DeletedThreads(c.userId, c.syncStartTime)
      threadIds == {t.id : t \in deletedThreads}
  IN
  /\ c.pc = "cleanup"
  /\ \E ok \in Oks :
       /\ Fail(ok)
       /\ IF ok
          THEN /\ threads' = {t \in threads : t.id \notin threadIds}
               /\ messages' = messages \ MessagesOf(threadIds)
               /\ attachments' = attachments \ AttachmentsOf(MessagesOf(threadIds))
               /\ threadLabels' = {tl \in threadLabels : tl.threadId \notin threadIds}
               /\ cyc' = [cyc EXCEPT ![p] =
                    [c EXCEPT !.pc = "finalize",
                              !.g = [c.g EXCEPT !.pruned = deletedThreads]]]
          ELSE /\ UNCHANGED <<threads, messages, attachments, threadLabels>>
               /\ cyc' = [cyc EXCEPT ![p] =
                    Rethrow([c EXCEPT !.g = Mark(c.g, FALSE)], "cleanup", "store error")]
  /\ UNCHANGED <<users, lastSyncAt, labels, syncLogs, s3, seq, clock, cycles, lastRun>>
  /\ UNCHANGED schedVars

(* ---------------------- syncUser: the two endings ---------------------- *)
\* completeSyncLog: update the audit row by id
completeSyncLog(syncLogId, status, threadsSynced, messagesSynced, errorMessage) ==
  {IF l.id = syncLogId
   THEN [l EXCEPT !.status = status, !.threadsSynced = threadsSynced,
                  !.messagesSynced = messagesSynced,
                  !.errorMessage = errorMessage, !.completedAt = clock]
   ELSE l : l \in syncLogs}

\* what a finished call leaves for the next one to compare with
Ran(c, success) ==
  [valid |-> TRUE, remote |-> c.g.remote, success |-> success, throws |-> c.g.throws]

FinalizeOutcomes ==
  IF fails < MaxFail THEN {"ok", "update throws", "log throws"} ELSE {"ok"}

\* the end of the try block: set users.lastSyncAt, complete the audit row
\* with status success, return the counts
Finalize(p) ==
  LET c == cyc[p] IN
  /\ c.pc = "finalize"
  /\ \E out \in FinalizeOutcomes :
       /\ Fail(out = "ok")
       /\ lastSyncAt' = IF out = "update throws" \/ c.userId \notin users
                        THEN lastSyncAt
                        ELSE [lastSyncAt EXCEPT ![c.userId] = clock]
       /\ IF out = "ok"
          THEN /\ syncLogs' = completeSyncLog(c.syncLogId, "success",
                                 c.tot.threadsSynced, c.tot.messagesSynced, NULL)
               /\ cyc' = [cyc EXCEPT ![p] =
                    [c EXCEPT !.pc = "done",
                              !.result = [success |-> TRUE,
                                          threadsSynced |-> c.tot.threadsSynced,
                                          messagesSynced |-> c.tot.messagesSynced,
                                          attachmentsSynced |-> c.tot.attachmentsSynced,
                                          error |-> NULL, thrown |-> FALSE]]]
               /\ lastRun' = [lastRun EXCEPT ![c.userId] = Ran(c, TRUE)]
          ELSE /\ UNCHANGED <<syncLogs, lastRun>>
               /\ cyc' = [cyc EXCEPT ![p] =
                    Rethrow([c EXCEPT !.g = Mark(c.g, FALSE)], "finalize", "store error")]
  /\ UNCHANGED <<users, labels, threads, threadLabels, messages, attachments,
                 s3, seq, clock, cycles>>
  /\ UNCHANGED schedVars

\* the catch block: complete the audit row with status failed and the error
\* message, return {success: false, error} with zero counts.  When this
\* update throws, syncUser rejects.
Catch(p) ==
  LET c == cyc[p] IN
  /\ c.pc = "catch"
  /\ \E ok \in Oks :
       /\ Fail(ok)
       /\ syncLogs' = IF ok THEN completeSyncLog(c.syncLogId, "failed", 0, 0, c.error)
                      ELSE syncLogs
       /\ cyc' = [cyc EXCEPT ![p] =
            [c EXCEPT !.pc = "done",
                      !.result = IF ok THEN [NoResult EXCEPT !.error = c.error]
                                 ELSE [NoResult EXCEPT !.thrown = TRUE],
                      !.g = Mark(c.g, ok)]]
       /\ lastRun' = [lastRun EXCEPT ![c.userId] = Ran([c EXCEPT !.g = Mark(c.g, ok)], FALSE)]
  /\ UNCHANGED <<users, lastSyncAt, labels, threads, threadLabels, messages,
                 attachments, s3, seq, clock, cycles>>
  /\ UNCHANGED schedVars

(* --------------------------- account removal --------------------------- *)
\* delete from users where id = u, with the cascades of the schema: labels,
\* threads and sync_logs of the user, then thread_labels, messages and
\* attachments under them
DeleteUser(u) ==
  LET threadIds == {t.id : t \in {t \in threads : t.userId = u}}
      labelIds == {l.id : l \in {l \in labels : l.userId = u}}
  IN
  /\ u \in users
  /\ \A p \in Procs : cyc[p].pc \in {"idle", "done"}
  /\ users' = users \ {u}
  /\ oauthTokens' = oauthTokens \ {u}
  /\ UNCHANGED <<sched, api, lib>>
  /\ lastSyncAt' = [lastSyncAt EXCEPT ![u] = 0]
  /\ labels' = {l \in labels : l.userId # u}
  /\ threads' = {t \in threads : t.userId # u}
  /\ syncLogs' = {l \in syncLogs : l.userId # u}
  /\ threadLabels' = {tl \in threadLabels : tl.threadId \notin threadIds
                                            /\ tl.labelId \notin labelIds}
  /\ messages' = messages \ MessagesOf(threadIds)
  /\ attachments' = attachments \ AttachmentsOf(MessagesOf(threadIds))
  /\ UNCHANGED <<s3, seq, clock, cyc, fails, cycles, lastRun>>

(* ---------------------------- specification ---------------------------- *)
\* the users whose cycles the sequential specification runs; user 2 is a
\* bystander whose rows must stay untouched
Callers == {1}

\* sync cycles run one after another (process 1), the caller's account may
\* be removed between cycles
Next ==
  \/ \E u \in Callers : StartCycle(1, u) /\ UNCHANGED schedVars
  \/ SelectUser(1)
  \/ SyncLabels(1)
  \/ ListThreads(1)
  \/ LookupThread(1)
  \/ WriteThread(1)
  \/ SyncMessage(1)
  \/ Cleanup(1)
  \/ Finalize(1)
  \/ Catch(1)
  \/ \E u \in Callers : DeleteUser(u)

Spec == Init /\ [][Next]_vars

(* ----------------------- concurrent specification ---------------------- *)
\* the step of p lists a mailbox of at most one conversation
SmallMailbox(p) == Len(cyc'[p].g.remote) <= 1

\* no await of the step throws
NoThrow == fails' = fails

\* two calls of syncUser for the same user run at once (triggerSync has no
\* lock, and a scheduled cycle may be running); every await is a point where
\* the other call may run.  The awaits all resolve.
ConcurrentNext ==
  \/ \E p \in Procs : \E u \in Callers :
       StartCycle(p, u) /\ NoThrow /\ UNCHANGED schedVars
  \/ \E p \in Procs : SelectUser(p) /\ NoThrow
  \/ \E p \in Procs : SyncLabels(p) /\ NoThrow
  \/ \E p \in Procs : ListThreads(p) /\ NoThrow /\ SmallMailbox(p)
  \/ \E p \in Procs : LookupThread(p) /\ NoThrow
  \/ \E p \in Procs : WriteThread(p) /\ NoThrow
  \/ \E p \in Procs : SyncMessage(p) /\ NoThrow
  \/ \E p \in Procs : Cleanup(p) /\ NoThrow
  \/ \E p \in Procs : Finalize(p) /\ NoThrow

ConcurrentSpec == Init /\ [][ConcurrentNext]_vars

(* ------------------------------ cancelSync ----------------------------- *)
\* mutation: cancelSync stops the cycle that writes the audit row
CancelSyncStopsCycle(syncLogId) ==
  /\ \E l \in syncLogs : l.id = syncLogId
  /\ syncLogs' = {IF l.id = syncLogId
                  THEN [l EXCEPT !.status = "cancelled", !.completedAt = clock]
                  ELSE l : l \in syncLogs}
  /\ cyc' = [p \in Procs |->
               IF cyc[p].syncLogId = syncLogId /\ cyc[p].pc \notin {"idle", "done"}
               THEN [cyc[p] EXCEPT !.pc = "done", !.g = [@ EXCEPT !.cancelled = TRUE]]
               ELSE cyc[p]]
  /\ UNCHANGED <<users, lastSyncAt, labels, threads, threadLabels, messages,
                 attachments, s3, seq, clock, fails, cycles, lastRun>>
  /\ UNCHANGED schedVars

\* syncRouter.cancelSync: update sync_logs set status = 'cancelled',
\* completedAt = now where id = syncLogId.  Neither the owner nor the status
\* of the row is looked at, and the running call of syncUser is not told
\* (cyc changes in its history field only).
CancelSync(syncLogId) ==
  /\ \E l \in syncLogs : l.id = syncLogId
  /\ syncLogs' = {IF l.id = syncLogId
                  THEN [l EXCEPT !.status = "cancelled", !.completedAt = clock]
                  ELSE l : l \in syncLogs}
  /\ cyc' = [p \in Procs |->
               IF cyc[p].syncLogId = syncLogId /\ cyc[p].pc \notin {"idle", "done"}
               THEN [cyc[p] EXCEPT !.g = [@ EXCEPT !.cancelled = TRUE]]
               ELSE cyc[p]]
  /\ UNCHANGED <<users, lastSyncAt, labels, threads, threadLabels, messages,
                 attachments, s3, seq, clock, fails, cycles, lastRun>>
  /\ UNCHANGED schedVars

\* the ids cancelSync is called with: those of the audit rows
SyncLogIds == {l.id : l \in syncLogs}

\* no audit row is in status cancelled
NoneCancelled == \A l \in syncLogs : l.status # "cancelled"

\* sequential cycles of the caller over mailboxes of at most one
\* conversation, with a call of cancelSync at any moment while no row is
\* in status cancelled
CancelNext ==
  \/ \E u \in Callers : StartCycle(1, u) /\ UNCHANGED schedVars
  \/ SelectUser(1)
  \/ SyncLabels(1)
  \/ ListThreads(1) /\ SmallMailbox(1)
  \/ LookupThread(1)
  \/ WriteThread(1)
  \/ SyncMessage(1)
  \/ Cleanup(1)
  \/ Finalize(1)
  \/ Catch(1)
  \/ \E syncLogId \in SyncLogIds : CancelSync(syncLogId) /\ NoneCancelled

CancelSpec == Init /\ [][CancelNext]_vars

(* ------------------- cycles over a mailbox that changed ---------------- *)
\* The store after user 1, too, has completed a cycle at time 1: at that
\* time conversation t1 held only message m1, which was read (labels INBOX),
\* and the fetches of its attachments failed.  Since then m1 has become
\* unread and m2 has arrived.
RefreshInit ==
  /\ users = {1, 2}
  /\ lastSyncAt = [u \in UserIds |-> 1]
  /\ labels = {[id |-> 1, userId |-> 2, labelId |-> "INBOX"],
               [id |-> 2, userId |-> 2, labelId |-> "UNREAD"],
               [id |-> 3, userId |-> 1, labelId |-> "INBOX"],
               [id |-> 4, userId |-> 1, labelId |-> "UNREAD"]}
  /\ threads = {[id |-> 1, gmailThreadId |-> "t2", userId |-> 2,
                 isUnread |-> FALSE, isStarred |-> FALSE,
                 isImportant |-> FALSE, isDraft |-> FALSE, lastSeenAt |-> 1],
                [id |-> 2, gmailThreadId |-> "t1", userId |-> 1,
                 isUnread |-> FALSE, isStarred |-> FALSE,
                 isImportant |-> FALSE, isDraft |-> FALSE, lastSeenAt |-> 1]}
  /\ threadLabels = {[threadId |-> 2, labelId |-> 1],
                     [threadId |-> 2, labelId |-> 3]}
  /\ messages = {[id |-> 1, gmailMessageId |-> "m3", threadId |-> 1,
                  bodyS3Key |-> BodyKey(2, "m3"), isUnread |-> FALSE],
                 [id |-> 2, gmailMessageId |-> "m1", threadId |-> 2,
                  bodyS3Key |-> BodyKey(1, "m1"), isUnread |-> FALSE]}
  /\ attachments = {[id |-> 1, messageId |-> 1, gmailAttachmentId |-> "a1",
                     s3Key |-> AttachmentKey(2, "m3", "a1")],
                    [id |-> 2, messageId |-> 1, gmailAttachmentId |-> "a1",
                     s3Key |-> AttachmentKey(2, "m3", "a1")]}
  /\ syncLogs = {[id |-> 1, userId |-> 2, status |-> "success",
                  threadsSynced |-> 1, messagesSynced |-> 1,
                  errorMessage |-> NULL, completedAt |-> 1],
                 [id |-> 2, userId |-> 1, status |-> "success",
                  threadsSynced |-> 1, messagesSynced |-> 1,
                  errorMessage |-> NULL, completedAt |-> 1]}
  /\ s3 = {BodyKey(2, "m3"), AttachmentKey(2, "m3", "a1"), BodyKey(1, "m1")}
  /\ seq = [labels |-> 5, threads |-> 3, messages |-> 3, attachments |-> 3,
            syncLogs |-> 3]
  /\ clock = 1
  /\ cyc = [p \in Procs |-> IdleCycle]
  /\ fails = 0
  /\ cycles = 0
  /\ lastRun = [u \in UserIds |-> NoGhost.prev]
  /\ oauthTokens = UserIds
  /\ sched = IdleSched("secret")
  /\ api = Session(1)
  /\ lib = NoCall

\* sequential cycles of the caller over mailboxes of at most one
\* conversation
RefreshNext ==
  \/ \E u \in Callers : StartCycle(1, u) /\ UNCHANGED schedVars
  \/ SelectUser(1)
  \/ SyncLabels(1)
  \/ ListThreads(1) /\ SmallMailbox(1)
  \/ LookupThread(1)
  \/ WriteThread(1)
  \/ SyncMessage(1)
  \/ Cleanup(1)
  \/ Finalize(1)
  \/ Catch(1)

RefreshSpec == RefreshInit /\ [][RefreshNext]_vars

(* ------------------- a cycle that is in its catch block ---------------- *)
\* The state of the sequential specification in which the first cycle of
\* user 1 has written its audit row and the select of the user row has
\* thrown, so that syncUser is in its catch block.
AuditStore ==
  /\ users = {1, 2}
  /\ lastSyncAt = [u \in UserIds |-> IF u = 2 THEN 1 ELSE 0]
  /\ labels = {[id |-> 1, userId |-> 2, labelId |-> "INBOX"],
               [id |-> 2, userId |-> 2, labelId |-> "UNREAD"]}
  /\ threads = {[id |-> 1, gmailThreadId |-> "t2", userId |-> 2,
                 isUnread |-> FALSE, isStarred |-> FALSE,
                 isImportant |-> FALSE, isDraft |-> FALSE, lastSeenAt |-> 1]}
  /\ threadLabels = {}
  /\ messages = {[id |-> 1, gmailMessageId |-> "m3", threadId |-> 1,
                  bodyS3Key |-> BodyKey(2, "m3"), isUnread |-> FALSE]}
  /\ attachments = {[id |-> 1, messageId |-> 1, gmailAttachmentId |-> "a1",
                     s3Key |-> AttachmentKey(2, "m3", "a1")],
                    [id |-> 2, messageId |-> 1, gmailAttachmentId |-> "a1",
                     s3Key |-> AttachmentKey(2, "m3", "a1")]}
  /\ syncLogs = {[id |-> 1, userId |-> 2, status |-> "success",
                  threadsSynced |-> 1, messagesSynced |-> 1,
                  errorMessage |-> NULL, completedAt |-> 1],
                 [id |-> 2, userId |-> 1, status |-> "running",
                  threadsSynced |-> 0, messagesSynced |-> 0,
                  errorMessage |-> NULL, completedAt |-> 0]}
  /\ s3 = {BodyKey(2, "m3"), AttachmentKey(2, "m3", "a1")}
  /\ seq = [labels |-> 3, threads |-> 2, messages |-> 2, attachments |-> 3,
            syncLogs |-> 3]
  /\ clock = 2
  /\ cyc = [p \in Procs |->
              IF p = 1
              THEN Rethrow([IdleCycle EXCEPT
                              !.pc = "user", !.userId = 1, !.syncLogId = 2,
                              !.syncStartTime = 2,
                              !.g = Mark([NoGhost EXCEPT
                                            !.preThreads = threads,
                                            !.preMessages = messages,
                                            !.preAttachments = attachments],
                                         FALSE)],
                           "user", "store error")
              ELSE IdleCycle]
  /\ cycles = 1
  /\ lastRun = [u \in UserIds |-> NoGhost.prev]
  /\ oauthTokens = UserIds
  /\ sched = IdleSched("secret")
  /\ api = Session(1)
  /\ lib = NoCall

\* the failure that led to the catch block is not counted among the
\* failures of the behaviours that start here
AuditInit == AuditStore /\ fails = 0

\* the catch block and the cycles that follow it, over mailboxes of at most
\* one conversation
AuditNext ==
  \/ \E u \in Callers : StartCycle(1, u) /\ UNCHANGED schedVars
  \/ SelectUser(1)
  \/ SyncLabels(1)
  \/ ListThreads(1) /\ SmallMailbox(1)
  \/ LookupThread(1)
  \/ WriteThread(1)
  \/ SyncMessage(1)
  \/ Cleanup(1)
  \/ Finalize(1)
  \/ Catch(1)

AuditSpec == AuditInit /\ [][AuditNext]_vars

(* ------------------------- /api/sync/scheduled ------------------------- *)
\* SYNC_INTERVAL_MINUTES as read from the environment, in ticks of the clock
SYNC_INTERVAL_MINUTES == 1

\* the requests: method, Authorization header, and whether the user-agent
\* contains 'vercel-cron' or x-vercel-cron is '1'
Requests ==
  [method : {"POST", "GET"},
   authorization : {NULL, "Bearer secret", "Bearer wrong", "Bearer undefined"},
   vercelCron : BOOLEAN]

\* the auth check of the handler: isVercelCron or
\* authHeader === `Bearer ${process.env.CRON_SECRET}`
Authorized(req, cronSecret) ==
  req.vercelCron \/ req.authorization = "Bearer " \o cronSecret

\* the filter of usersNeedingSync
NeedsSync(u, syncThreshold) ==
  /\ u \in oauthTokens
  /\ lastSyncAt[u] = 0 \/ lastSyncAt[u] < syncThreshold

\* the orders in which a select without ORDER BY may return the rows S
Orders(S) ==
  {f \in [1..Cardinality(S) -> S] :
     \A i, j \in 1..Cardinality(S) : f[i] = f[j] => i = j}

\* the time since the last reading of the clock when the handler is
\* invoked: one interval (the cron schedule) or more
Elapsed == {SYNC_INTERVAL_MINUTES, SYNC_INTERVAL_MINUTES + 1}

\* the handler up to its loop: method check, auth check, select of the
\* users and filter
ScheduledRequest(req) ==
  LET s0 == [sched EXCEPT !.req = req, !.usersNeedingSync = <<>>, !.i = 0,
                          !.successCount = 0, !.errorCount = 0,
                          !.totalUsers = 0, !.status = 0,
                          !.g = [@ EXCEPT !.runs = @ + 1, !.started = <<>>,
                                          !.results = <<>>]]
  IN
  /\ sched.pc \in {"off", "responded"}
  /\ cyc[1].pc \in {"idle", "done"}
  /\ sched.g.runs < MaxRuns
  /\ IF req.method # "POST"
     THEN /\ sched' = [s0 EXCEPT !.pc = "responded", !.status = 405]
          /\ UNCHANGED <<clock, fails>>
     ELSE IF ~Authorized(req, sched.cronSecret)
     THEN /\ sched' = [s0 EXCEPT !.pc = "responded", !.status = 401]
          /\ UNCHANGED <<clock, fails>>
     ELSE \E ok \in Oks : \E d \in Elapsed :
            /\ Fail(ok)
            /\ clock' = clock + d
            /\ IF ok
               THEN \E usersNeedingSync \in
                        Orders({u \in users :
                                  NeedsSync(u, clock + d - SYNC_INTERVAL_MINUTES)}) :
                      sched' = [s0 EXCEPT !.pc = "loop", !.i = 1,
                                          !.usersNeedingSync = usersNeedingSync,
                                          !.g = [@ EXCEPT !.now = clock + d,
                                                          !.lastSyncAt = lastSyncAt]]
               ELSE sched' = [s0 EXCEPT !.pc = "responded", !.status = 500]
  /\ UNCHANGED <<users, lastSyncAt, labels, threads, threadLabels, messages,
                 attachments, syncLogs, s3, seq, cyc, cycles, lastRun, oauthTokens, api,
                 lib>>

\* the loop calls syncUser for the next user
ScheduledStart ==
  /\ sched.pc = "loop"
  /\ sched.i <= Len(sched.usersNeedingSync)
  /\ StartCycle(1, sched.usersNeedingSync[sched.i])
  /\ sched' = [sched EXCEPT !.pc = "await", !.req = NoRequest,
                            !.g = [@ EXCEPT !.started =
                                     Append(@, sched.usersNeedingSync[sched.i])]]
  /\ UNCHANGED <<oauthTokens, api, lib>>

\* mutation: no try around syncUser, a rejected call ends the handler
ScheduledCollectUncaught ==
  LET r == cyc[1].result IN
  /\ sched.pc = "await"
  /\ cyc[1].pc = "done"
  /\ sched' = IF r.thrown
              THEN [sched EXCEPT !.pc = "responded", !.status = 500]
              ELSE [sched EXCEPT !.pc = "loop", !.i = @ + 1,
                                 !.successCount = @ + IF r.success THEN 1 ELSE 0,
                                 !.errorCount = @ + IF r.success THEN 0 ELSE 1]
  /\ UNCHANGED <<users, lastSyncAt, labels, threads, threadLabels, messages,
                 attachments, syncLogs, s3, seq, clock, cyc, fails, cycles,
                 lastRun, oauthTokens, api, lib>>

\* syncUser has returned or rejected: count it (the catch of the loop body
\* counts a rejection as an error) and go on with the next user
ScheduledCollect ==
  LET r == cyc[1].result
      u == cyc[1].userId
      outcome == IF r.thrown THEN "threw"
                 ELSE IF r.success THEN "success" ELSE "failed"
  IN
  /\ sched.pc = "await"
  /\ cyc[1].pc = "done"
  /\ sched' = [sched EXCEPT
       !.pc = "loop", !.i = @ + 1,
       !.successCount = @ + IF outcome = "success" THEN 1 ELSE 0,
       !.errorCount = @ + IF outcome = "success" THEN 0 ELSE 1,
       !.g = [@ EXCEPT !.results = Append(@, outcome),
                       !.failed = IF outcome = "failed" THEN @ \cup {u}
                                  ELSE IF outcome = "success" THEN @ \ {u}
                                  ELSE @]]
  /\ UNCHANGED <<users, lastSyncAt, labels, threads, threadLabels, messages,
                 attachments, syncLogs, s3, seq, clock, cyc, fails, cycles,
                 lastRun, oauthTokens, api, lib>>

\* after the loop: the 200 response with the summary
ScheduledRespond ==
  /\ sched.pc = "loop"
  /\ sched.i > Len(sched.usersNeedingSync)
  /\ sched' = [sched EXCEPT !.pc = "responded", !.status = 200,
                            !.req = NoRequest,
                            !.totalUsers = Len(sched.usersNeedingSync)]
  /\ UNCHANGED <<users, lastSyncAt, labels, threads, threadLabels, messages,
                 attachments, syncLogs, s3, seq, clock, cyc, fails, cycles,
                 lastRun, oauthTokens, api, lib>>

\* user 2 may lack a token, CRON_SECRET may be unset
ScheduledInit ==
  /\ InitStore
  /\ oauthTokens \in {UserIds, Callers}
  /\ \E cronSecret \in {"secret", "undefined"} : sched = IdleSched(cronSecret)
  /\ api = Session(1)
  /\ lib = NoCall

\* the listing of the cycle of p has no conversation
EmptyMailbox(p) == Len(cyc'[p].g.remote) = 0

\* invocations of the scheduled handler, one after another; the cycles it
\* starts run over mailboxes without conversations
ScheduledNext ==
  \/ \E req \in Requests : ScheduledRequest(req)
  \/ ScheduledStart
  \/ SelectUser(1)
  \/ SyncLabels(1)
  \/ ListThreads(1) /\ EmptyMailbox(1)
  \/ Cleanup(1)
  \/ Finalize(1)
  \/ Catch(1)
  \/ ScheduledCollect
  \/ ScheduledRespond

ScheduledSpec == ScheduledInit /\ [][ScheduledNext]_vars

(* ------------------------------ syncRouter ----------------------------- *)
\* a row of syncLogs as getSyncStatus and getSyncProgress return it
Progress(l) ==
  [id |-> l.id, status |-> l.status, completedAt |-> l.completedAt,
   threadsSynced |-> l.threadsSynced, messagesSynced |-> l.messagesSynced,
   errorMessage |-> l.errorMessage]

\* user u signs in: the calls that follow carry the session of u
SignIn(u) ==
  /\ cyc[1].pc \in {"idle", "done"}
  /\ api' = Session(u)
  /\ UNCHANGED <<db, s3, seq, clock, cyc, fails, cycles, lastRun, oauthTokens,
                 sched, lib>>

\* triggerSync: the user row and its tokens are read, then syncUser is
\* called for the user of the session
TriggerSync ==
  LET userId == api.userId IN
  /\ cyc[1].pc \in {"idle", "done"}
  /\ IF userId \notin users
     THEN /\ api' = [api EXCEPT !.response =
                       [op |-> "triggerSync", error |-> "User not found"]]
          /\ UNCHANGED <<db, s3, seq, clock, cyc, fails, cycles, lastRun>>
     ELSE IF userId \notin oauthTokens
     THEN /\ api' = [api EXCEPT !.response =
                       [op |-> "triggerSync",
                        error |-> "User OAuth tokens not found"]]
          /\ UNCHANGED <<db, s3, seq, clock, cyc, fails, cycles, lastRun>>
     ELSE /\ StartCycle(1, userId)
          /\ api' = [api EXCEPT !.response = [op |-> "triggerSync"]]
  /\ UNCHANGED <<oauthTokens, sched, lib>>

\* getSyncStatus: lastSyncAt of the user of the session and the rows of
\* syncLogs with that userId
GetSyncStatus ==
  LET userId == api.userId IN
  /\ api' = [api EXCEPT !.response =
               [op |-> "getSyncStatus",
                lastSyncAt |-> IF userId \in users THEN lastSyncAt[userId] ELSE 0,
                recentSyncs |-> {Progress(l) : l \in {l \in syncLogs :
                                                        l.userId = userId}}]]
  /\ UNCHANGED <<db, s3, seq, clock, cyc, fails, cycles, lastRun, oauthTokens,
                 sched, lib>>

\* getSyncProgress: the row of syncLogs with the id of the input
GetSyncProgress(syncLogId) ==
  LET found == {l \in syncLogs : l.id = syncLogId} IN
  /\ api' = [api EXCEPT !.response =
               IF found = {}
               THEN [op |-> "getSyncProgress", error |-> "Sync log not found"]
               ELSE [op |-> "getSyncProgress",
                     syncLog |-> Progress(CHOOSE l \in found : TRUE)]]
  /\ UNCHANGED <<db, s3, seq, clock, cyc, fails, cycles, lastRun, oauthTokens,
                 sched, lib>>

\* the calls of the sync router by signed-in users, one after another; the
\* cycles run over mailboxes without conversations and no step of them fails
ApiNext ==
  \/ \E u \in UserIds : SignIn(u)
  \/ TriggerSync /\ NoThrow
  \/ SelectUser(1) /\ NoThrow
  \/ SyncLabels(1) /\ NoThrow
  \/ ListThreads(1) /\ EmptyMailbox(1) /\ NoThrow
  \/ Cleanup(1) /\ NoThrow
  \/ Finalize(1) /\ NoThrow
  \/ GetSyncStatus
  \/ \E syncLogId \in SyncLogIds : GetSyncProgress(syncLogId)
  \/ \E syncLogId \in SyncLogIds : CancelSync(syncLogId) /\ NoneCancelled

\* user 2 may lack a token
ApiInit ==
  /\ InitStore
  /\ oauthTokens \in {UserIds, Callers}
  /\ sched = IdleSched("secret")
  /\ api = Session(1)
  /\ lib = NoCall

ApiSpec == ApiInit /\ [][ApiNext]_vars

(* ------------------------- S3Service: the keys ------------------------- *)
\* the characters of the filenames: a lower-case letter, an upper-case
\* letter, a digit, the three punctuation marks of the class, and a slash, a
\* space and a non-ASCII letter outside it
Chars == {"a", "Z", "7", ".", "_", "-", "/", " ", "\\u00e9"}

\* the class [a-zA-Z0-9._-], over the letters that occur in filenames, ids
\* and the fixed parts of a key
SafeChars ==
  {"a", "c", "e", "h", "i", "j", "l", "m", "n", "s", "t", "A", "G", "N", "Z"}
  \cup {"0", "1", "2", "3", "4", "5", "6", "7", "8", "9"}
  \cup {".", "_", "-"}

\* the argument of substring(0, 255) in sanitizeFilename, which the code
\* calls the S3 key length limit
KeyLengthLimit == 255

\* the filenames: every sequence of at most MaxLen characters, and runs of
\* one character and of underscores between characters around the limit
Filenames ==
  UNION {[1..n -> Chars] : n \in 0..MaxLen}
  \cup {[i \in 1..n |-> "a"] : n \in (KeyLengthLimit - 1)..(KeyLengthLimit + 1)}
  \cup {[i \in 1..(2 * n) |-> IF i % 2 = 0 THEN " " ELSE "a"] :
          n \in (KeyLengthLimit - 1)..(KeyLengthLimit + 1)}
  \cup {[i \in 1..n |-> IF i <= 2 THEN "/" ELSE "Z"] :
          n \in KeyLengthLimit..(KeyLengthLimit + 2)}

\* the remote ids of messages and attachments, as characters
MessageIdChars == {<<"1", "8", "c">>}
AttachmentIdChars == {<<"A", "N", "G", "j">>, <<"a", "_", "-", "7">>}

\* `${userId}` of a number below 100
Decimal(n) ==
  LET digit == <<"0", "1", "2", "3", "4", "5", "6", "7", "8", "9">> IN
  IF n < 10 THEN <<digit[n + 1]>>
  ELSE <<digit[(n \div 10) + 1], digit[(n % 10) + 1]>>

\* filename.replace(/[^a-zA-Z0-9._-]/g, '_')
ReplaceUnsafe(filename) ==
  [i \in 1..Len(filename) |->
     IF filename[i] \in SafeChars THEN filename[i] ELSE "_"]

\* .replace(/_{2,}/g, '_'): of every run of underscores the first one stays
CollapseUnderscores(str) ==
  LET indexed == [i \in 1..Len(str) |-> <<i, str[i]>>]
      kept == SelectSeq(indexed,
                LAMBDA x : ~(x[2] = "_" /\ x[1] > 1 /\ str[x[1] - 1] = "_"))
  IN [i \in 1..Len(kept) |-> kept[i][2]]

\* .substring(0, limit)
Substring0(str, limit) == SubSeq(str, 1, Min(Len(str), limit))

\* S3Service.sanitizeFilename
sanitizeFilename(filename) ==
  Substring0(CollapseUnderscores(ReplaceUnsafe(filename)), KeyLengthLimit)

\* `emails/${userId}/attachments/${messageId}/${attachmentId}/${sanitizedFilename}`
generateAttachmentKey(userId, messageId, attachmentId, filename) ==
  <<"e", "m", "a", "i", "l", "s", "/">> \o Decimal(userId)
  \o <<"/", "a", "t", "t", "a", "c", "h", "m", "e", "n", "t", "s", "/">>
  \o messageId \o <<"/">> \o attachmentId \o <<"/">>
  \o sanitizeFilename(filename)

\* the key that uploadAttachment builds before the put
uploadAttachmentKey(userId, messageId, attachmentId, filename) ==
  LET sanitizedFilename == sanitizeFilename(filename) IN
  <<"e", "m", "a", "i", "l", "s", "/">> \o Decimal(userId)
  \o <<"/", "a", "t", "t", "a", "c", "h", "m", "e", "n", "t", "s", "/">>
  \o messageId \o <<"/">> \o attachmentId \o <<"/">> \o sanitizedFilename

\* the arguments of the calls
KeyArgs ==
  [userId : {1, 21}, messageId : MessageIdChars,
   attachmentId : AttachmentIdChars, filename : Filenames]

\* uploadAttachment is called: the put resolves and the result holds the
\* key, or the put throws
UploadAttachment ==
  /\ lib.fn = "keys"
  /\ lib.uploads < 2
  /\ \E ok \in BOOLEAN :
       lib' = [lib EXCEPT
         !.uploads = @ + 1,
         !.threw = ~ok,
         !.keys = IF ok
                  THEN Append(@, uploadAttachmentKey(lib.args.userId,
                                   lib.args.messageId, lib.args.attachmentId,
                                   lib.args.filename))
                  ELSE @]
  /\ UNCHANGED <<db, s3, seq, clock, cyc, fails, cycles, lastRun, oauthTokens,
                 sched, api>>

\* generateAttachmentKey is called with the same arguments
GenerateAttachmentKey ==
  /\ lib.fn = "keys"
  /\ lib.generated = <<>>
  /\ lib' = [lib EXCEPT !.generated =
               <<generateAttachmentKey(lib.args.userId, lib.args.messageId,
                                       lib.args.attachmentId, lib.args.filename)>>]
  /\ UNCHANGED <<db, s3, seq, clock, cyc, fails, cycles, lastRun, oauthTokens,
                 sched, api>>

KeyInit ==
  /\ InitStore
  /\ oauthTokens = UserIds
  /\ sched = IdleSched("secret")
  /\ api = Session(1)
  /\ \E args \in KeyArgs :
       lib = [fn |-> "keys", args |-> args, uploads |-> 0, threw |-> FALSE,
              keys |-> <<>>, generated |-> <<>>]

KeyNext == UploadAttachment \/ GenerateAttachmentKey

\* calls of uploadAttachment and generateAttachmentKey with one tuple of
\* arguments
KeySpec == KeyInit /\ [][KeyNext]_vars

(* ------------------- GmailApiService.extractHtmlBody ------------------- *)
\* the parts: mimeType and body.data in base64 (NULL: the part has no data)
MimeParts ==
  [mimeType : {"text/plain"}, data : {NULL, "QQ=="}]
  \cup [mimeType : {"text/html"}, data : {NULL, "QQ==", "Qg==", "="}]
  \cup [mimeType : {"multipart/alternative"}, data : {NULL}]

\* Buffer.from(data, 'base64').toString('utf-8'); padding alone decodes to
\* the empty string
Base64Decode(data) ==
  CASE data = "QQ==" -> "A"
    [] data = "Qg==" -> "B"
    [] data = "=" -> ""

\* the truthiness of a string or null in a condition
Truthy(str) == str # NULL /\ str # ""

\* A payload is kept as the sequence of its parts in depth-first pre-order,
\* each with its depth; payload.parts of the part at position i are the
\* positions of depth one more that come before the next part that is not
\* deeper than i
Parts(tree, i) ==
  LET last == CHOOSE k \in i..Len(tree) :
                /\ \A j \in (i + 1)..k : tree[j].depth > tree[i].depth
                /\ k = Len(tree) \/ tree[k + 1].depth <= tree[i].depth
      indexed == [j \in 1..Len(tree) |-> j]
  IN SelectSeq(indexed,
       LAMBDA j : j > i /\ j <= last /\ tree[j].depth = tree[i].depth + 1)

RECURSIVE extractHtmlBody(_, _)
RECURSIVE extractHtmlBodyOfParts(_, _, _)
\* the loop over payload.parts from position k on
extractHtmlBodyOfParts(tree, parts, k) ==
  IF k > Len(parts) THEN NULL
  ELSE LET htmlBody == extractHtmlBody(tree, parts[k])
       IN IF Truthy(htmlBody) THEN htmlBody
          ELSE extractHtmlBodyOfParts(tree, parts, k + 1)

\* GmailApiService.extractHtmlBody of the part at position i
extractHtmlBody(tree, i) ==
  IF tree[i].mimeType = "text/html" /\ Truthy(tree[i].data)
  THEN Base64Decode(tree[i].data)
  ELSE extractHtmlBodyOfParts(tree, Parts(tree, i), 1)

\* a message arrives with one more part: below the last part, beside it, or
\* beside one of the parts above it
AppendPart ==
  /\ lib.fn = "mime"
  /\ ~lib.returned
  /\ Len(lib.payload) < MaxNodes
  /\ \E part \in MimeParts :
       \E depth \in 1..(lib.payload[Len(lib.payload)].depth + 1) :
         lib' = [lib EXCEPT !.payload =
                   Append(@, [mimeType |-> part.mimeType, data |-> part.data,
                              depth |-> depth])]
  /\ UNCHANGED <<db, s3, seq, clock, cyc, fails, cycles, lastRun, oauthTokens,
                 sched, api>>

\* extractHtmlBody(payload) is called
ExtractHtmlBody ==
  /\ lib.fn = "mime"
  /\ ~lib.returned
  /\ lib' = [lib EXCEPT !.returned = TRUE,
                        !.htmlBody = extractHtmlBody(lib.payload, 1)]
  /\ UNCHANGED <<db, s3, seq, clock, cyc, fails, cycles, lastRun, oauthTokens,
                 sched, api>>

MimeInit ==
  /\ InitStore
  /\ oauthTokens = UserIds
  /\ sched = IdleSched("secret")
  /\ api = Session(1)
  /\ \E part \in MimeParts :
       lib = [fn |-> "mime", returned |-> FALSE, htmlBody |-> NULL,
              payload |-> <<[mimeType |-> part.mimeType, data |-> part.data,
                             depth |-> 0]>>]

MimeNext == AppendPart \/ ExtractHtmlBody

\* payloads of at most MaxNodes parts, and a call of extractHtmlBody
MimeSpec == MimeInit /\ [][MimeNext]_vars

(* ============================== properties ============================= *)
\* the call of syncUser by process p has ended and returned success
Succeeded(p) == cyc[p].pc = "done" /\ cyc[p].result.success

\* every remote conversation was in the fetched list
FullBound(p) == cyc[p].g.listed /\ Len(cyc[p].g.remote) <= maxResults

\* the call repeats the user's previous call, which returned success, over
\* the same remote listing
Rerun(p) ==
  /\ cyc[p].g.prev.valid
  /\ cyc[p].g.prev.success
  /\ cyc[p].g.listed
  /\ cyc[p].g.prev.remote = cyc[p].g.remote

NothingNew(p) ==
  /\ cyc[p].g.rows = 0
  /\ cyc[p].g.puts = 0
  /\ cyc[p].result.threadsSynced = 0
  /\ cyc[p].result.messagesSynced = 0
  /\ cyc[p].result.attachmentsSynced = 0

\* C1 as stated: a successful cycle that is run again over the same remote
\* listing, the second run without a failing step, inserts no row, puts no
\* blob and returns zero counts.
C1_Idempotence_AsStated ==
  \A p \in Procs :
    (Succeeded(p) /\ Rerun(p) /\ cyc[p].g.throws = 0) => NothingNew(p)

\* C1 amended: when neither the first nor the second run had a failing
\* step, the second run inserts no row, puts no blob and returns zero counts.
C1_Idempotence ==
  \A p \in Procs :
    (Succeeded(p) /\ Rerun(p) /\ cyc[p].g.throws = 0 /\ cyc[p].g.prev.throws = 0)
      => NothingNew(p)

\* a clean rerun over a mailbox that lists t1 and t2
C1_Witness ==
  \E p \in Procs :
    /\ Succeeded(p) /\ Rerun(p)
    /\ cyc[p].g.throws = 0 /\ cyc[p].g.prev.throws = 0
    /\ cyc[p].g.remote = <<"t1", "t2">>
    /\ \E m \in messages : \E t \in threads :
         t.userId = cyc[p].userId /\ m.threadId = t.id

\* C2: no two thread rows share (userId, gmailThreadId) and no two message
\* rows share (threadId, gmailMessageId), in every state of sequentially
\* executed cycles.
C2_Uniqueness ==
  /\ \A t1, t2 \in threads :
       (t1.userId = t2.userId /\ t1.gmailThreadId = t2.gmailThreadId) => t1 = t2
  /\ \A m1, m2 \in messages :
       (m1.threadId = m2.threadId /\ m1.gmailMessageId = m2.gmailMessageId) => m1 = m2

\* the second cycle of a user ends after a listing with t1 twice (whose
\* detail lists m1 twice), t1 having been listed in the first cycle too
C2_Witness ==
  \E p \in Procs :
    /\ Succeeded(p)
    /\ cyc[p].g.remote = <<"t1", "t1">>
    /\ cyc[p].g.prev.valid /\ "t1" \in Range(cyc[p].g.prev.remote)
    /\ \E t \in threads : \E m \in messages :
         /\ t.userId = cyc[p].userId /\ t.gmailThreadId = "t1"
         /\ m.threadId = t.id /\ m.gmailMessageId = "m1"

\* thread rows of the cycle's user that existed when the cycle started
OwnBefore(p) == {t \in cyc[p].g.preThreads : t.userId = cyc[p].userId}

\* the thread row and every message and attachment row under it are gone
Gone(p, t) ==
  /\ \A t2 \in threads : t2.id # t.id
  /\ \A m \in messages : m.threadId # t.id
  /\ \A a \in attachments :
       \A m \in cyc[p].g.preMessages : m.threadId = t.id => a.messageId # m.id

\* C3: after a full-bound cycle that returned success, every thread row of
\* the user that existed before the cycle and whose remote id is not in the
\* fetched list is deleted, with its messages and attachments.
C3_Prune ==
  \A p \in Procs :
    (Succeeded(p) /\ FullBound(p)) =>
      \A t \in OwnBefore(p) :
        t.gmailThreadId \notin Range(cyc[p].g.remote) => Gone(p, t)

\* a conversation with a message and an attachment was pruned
C3_Witness ==
  \E p \in Procs :
    /\ Succeeded(p) /\ FullBound(p)
    /\ \E t \in OwnBefore(p) :
         /\ t.gmailThreadId \notin Range(cyc[p].g.remote)
         /\ \E m \in cyc[p].g.preMessages : \E a \in cyc[p].g.preAttachments :
              m.threadId = t.id /\ a.messageId = m.id

\* the remote ids the cycle fetched: the first maxResults of the mailbox
Fetched(p) ==
  {cyc[p].g.remote[i] : i \in 1..Min(Len(cyc[p].g.remote), maxResults)}

\* C4: after a full-bound cycle that returned success (the account still
\* there), every thread row that existed before the cycle and whose remote id
\* is in the fetched list is still there, and every thread row of the user
\* whose remote id is in the list has lastSeenAt equal to the cycle's start
\* time, failing per-thread and per-message steps included.
C4_Retention ==
  \A p \in Procs :
    (Succeeded(p) /\ FullBound(p) /\ cyc[p].userId \in users) =>
      /\ \A t \in OwnBefore(p) :
           t.gmailThreadId \in Fetched(p) => \E t2 \in threads : t2.id = t.id
      /\ \A t \in threads :
           (t.userId = cyc[p].userId /\ t.gmailThreadId \in Fetched(p))
             => t.lastSeenAt = cyc[p].syncStartTime

\* C5: after a cycle that returned success over a mailbox with more threads
\* than maxResults, every thread row of the user that existed before the
\* cycle and whose remote id is outside the fetched subset is deleted with
\* its messages and attachments, whether or not it is still in the mailbox.
C5_PartialPrune ==
  \A p \in Procs :
    (Succeeded(p) /\ cyc[p].g.listed /\ Len(cyc[p].g.remote) > maxResults) =>
      \A t \in OwnBefore(p) : t.gmailThreadId \notin Fetched(p) => Gone(p, t)

\* a thread with a message that is still in the mailbox, behind the first
\* maxResults entries, was synced by the previous cycle
C5_Witness ==
  \E p \in Procs :
    /\ Succeeded(p) /\ cyc[p].g.listed /\ Len(cyc[p].g.remote) > maxResults
    /\ \E t \in OwnBefore(p) :
         /\ t.gmailThreadId \notin Fetched(p)
         /\ t.gmailThreadId \in Range(cyc[p].g.remote)
         /\ \E m \in cyc[p].g.preMessages : m.threadId = t.id

\* C6: every message row references an existing thread row, every attachment
\* row an existing message row, and every thread_labels row an existing
\* thread row, in every state (after a prune and after the removal of an
\* account in particular).
C6_Cascade ==
  /\ \A m \in messages : \E t \in threads : t.id = m.threadId
  /\ \A a \in attachments : \E m \in messages : m.id = a.messageId
  /\ \A tl \in threadLabels : \E t \in threads : t.id = tl.threadId

\* the account was removed after a cycle that pruned a thread with a message,
\* an attachment and a label row, and inserted another thread with a message
C6_Witness ==
  \E p \in Procs :
    /\ Succeeded(p) /\ cyc[p].userId \notin users
    /\ cyc[p].result.messagesSynced > 0
    /\ \E t \in cyc[p].g.pruned :
         \E m \in cyc[p].g.preMessages : \E a \in cyc[p].g.preAttachments :
           m.threadId = t.id /\ a.messageId = m.id

\* the statuses of the audit row of the cycle of p
AuditStatus(p) == {l.status : l \in {l \in syncLogs : l.id = cyc[p].syncLogId}}

\* the cycle ended with success = true and its audit row says success (the
\* row goes away with the account)
EndedWithSuccess(p) ==
  /\ cyc[p].result.success
  /\ cyc[p].userId \in users => AuditStatus(p) = {"success"}

\* what the cycle has counted so far: the totals of syncUser plus the counts
\* of the thread in progress
Counted(c) ==
  [threadsSynced |-> c.tot.threadsSynced + c.thr.threadsSynced,
   messagesSynced |-> c.tot.messagesSynced + c.thr.messagesSynced,
   attachmentsSynced |-> c.tot.attachmentsSynced + c.thr.attachmentsSynced]

\* the step did not abort the cycle: the loops of syncUser go on
NotAborted(p) ==
  /\ cyc'[p].g.fatalAt = NULL
  /\ cyc'[p].pc \in {"msg", "thread", "cleanup"}

\* a step of p in which the processing of a conversation throws
ThreadThrows(p) ==
  /\ cyc[p].pc \in {"thread", "threadWrite"}
  /\ cyc'[p].g.threw # cyc[p].g.threw

C7_Step(p) ==
  ThreadThrows(p) =>
    /\ NotAborted(p)
    /\ cyc'[p].ti = cyc[p].ti + 1
    /\ cyc'[p].pc = IF cyc[p].ti < Len(cyc[p].gmailThreads) THEN "thread" ELSE "cleanup"
    /\ cyc'[p].tot = cyc[p].tot
    /\ cyc'[p].thr = ZeroCounts

C7_End(p) ==
  (/\ cyc[p].pc = "done"
   /\ cyc[p].g.threw # {}
   /\ cyc[p].g.throws = Cardinality(cyc[p].g.threw)) =>
    /\ EndedWithSuccess(p)
    /\ cyc[p].g.visited = DOMAIN cyc[p].gmailThreads
    /\ cyc[p].result.threadsSynced = cyc[p].tot.threadsSynced
    /\ cyc[p].result.messagesSynced = cyc[p].tot.messagesSynced
    /\ cyc[p].result.attachmentsSynced = cyc[p].tot.attachmentsSynced

\* C7: a step in which the processing of one conversation throws adds nothing
\* to the counts and moves syncUser's loop to the next conversation; a cycle
\* whose only failing steps were such throws has processed every fetched
\* conversation and ends with success = true, audit status success and the
\* counts of the other conversations.
C7_Isolation ==
  /\ [][\A p \in Procs : C7_Step(p)]_vars
  /\ [](\A p \in Procs : C7_End(p))

\* the first of two fetched conversations threw, the second one was inserted
\* and counted, the cycle returned success
C7_Witness ==
  \E p \in Procs :
    /\ Succeeded(p)
    /\ cyc[p].g.threw = {1} /\ cyc[p].g.visited = {1, 2}
    /\ cyc[p].result.threadsSynced = 1
    /\ cyc[p].result.messagesSynced > 0

\* the remote message the cycle of p is at
GmailMessageAt(p) == cyc[p].gmailThreads[cyc[p].ti].messages[cyc[p].mi]

\* syncThread's message loop went on to the next message, or syncThread
\* returned to the loop of syncUser
SiblingsGoOn(p) ==
  IF cyc[p].mi < Len(cyc[p].gmailThreads[cyc[p].ti].messages)
  THEN cyc'[p].pc = "msg" /\ cyc'[p].mi = cyc[p].mi + 1 /\ cyc'[p].ti = cyc[p].ti
  ELSE cyc'[p].pc \in {"thread", "cleanup"} /\ cyc'[p].ti = cyc[p].ti + 1

\* a step of p that inserts a new message and in which the fetch, the upload
\* or the insert of at least one of its attachments throws
AttachmentThrew(p) ==
  /\ cyc[p].pc = "msg"
  /\ cyc'[p].g.last = "inserted"
  /\ cyc'[p].g.throws > cyc[p].g.throws

C8_Step(p) ==
  LET c == cyc[p]
      gm == GmailMessageAt(p)
      f == cyc'[p].g.attOut
      ok == {k \in DOMAIN f : f[k] = "ok"}
      newRows == attachments' \ attachments
  IN AttachmentThrew(p) =>
       /\ NotAborted(p)
       /\ SiblingsGoOn(p)
       /\ \E m \in messages' \ messages :
            /\ m.gmailMessageId = gm.id
            /\ m.threadId = c.threadId
            /\ m.isUnread = ("UNREAD" \in gm.labelIds)
            /\ m.bodyS3Key = (IF gm.html THEN BodyKey(c.userId, gm.id) ELSE NULL)
            /\ gm.html => m.bodyS3Key \in s3'
            /\ \A a \in newRows : a.messageId = m.id
            /\ \A k \in ok : \E a \in newRows :
                 a.gmailAttachmentId = gm.parts[k] /\ a.s3Key \in s3'
       /\ Cardinality(newRows) = Cardinality(ok)
       /\ Counted(cyc'[p]) =
            [Counted(c) EXCEPT !.messagesSynced = @ + 1,
                               !.attachmentsSynced = @ + Cardinality(ok)]

C8_End(p) ==
  (/\ cyc[p].pc = "done"
   /\ cyc[p].g.last = "inserted"
   /\ cyc[p].g.throws > 0
   /\ cyc[p].g.throws = AttachmentThrows(cyc[p].g.attOut)) => EndedWithSuccess(p)

\* C8: a step that inserts a new message while one of its attachments throws
\* still inserts the message row with all its fields, inserts a row for every
\* other attachment, counts the message and only the attachments that went
\* through, and lets the loops go on; a cycle whose only failing steps were
\* attachments ends with status success.
C8_AttachmentIsolation ==
  /\ [][\A p \in Procs : C8_Step(p)]_vars
  /\ [](\A p \in Procs : C8_End(p))

\* the upload of the first attachment of a new message threw, the second
\* attachment was stored and counted, the cycle returned success
C8_Witness ==
  \E p \in Procs :
    /\ Succeeded(p)
    /\ cyc[p].g.last = "inserted"
    /\ Len(cyc[p].g.attOut) = 2
    /\ cyc[p].g.attOut[1] = "upload throws" /\ cyc[p].g.attOut[2] = "ok"
    /\ cyc[p].result.messagesSynced = 1
    /\ cyc[p].result.attachmentsSynced = 1

\* a step of p in which the upload of the HTML body of a new message throws
UploadThrew(p) ==
  /\ cyc[p].pc = "msg"
  /\ cyc'[p].g.last = "upload throws"

C9_End(p) ==
  (/\ cyc[p].pc = "done"
   /\ cyc[p].g.last = "upload throws"
   /\ cyc[p].g.throws = 1) => EndedWithSuccess(p)

C10_Fatal ==
  \A p \in Procs :
    (/\ cyc[p].pc = "done"
     /\ cyc[p].g.fatalAt \in {"labels", "list"}
     /\ cyc[p].g.throws = 1) =>
      /\ cyc[p].result = [success |-> FALSE, threadsSynced |-> 0,
                          messagesSynced |-> 0, attachmentsSynced |-> 0,
                          error |-> cyc[p].error, thrown |-> FALSE]
      /\ cyc[p].error \in {"Failed to fetch Gmail labels",
                           "Failed to fetch Gmail threads", "store error"}
      /\ cyc[p].g.visited = {}
      /\ cyc[p].userId \in users =>
           /\ \E l \in syncLogs :
                /\ l.id = cyc[p].syncLogId
                /\ l.status = "failed"
                /\ l.errorMessage = cyc[p].error
           /\ AuditStatus(p) = {"failed"}
           /\ threads = cyc[p].g.preThreads

\* the listing of conversations failed in the second cycle of a user who has
\* a thread row; the audit row says failed
C10_Witness ==
  \E p \in Procs :
    /\ cyc[p].pc = "done"
    /\ cyc[p].g.fatalAt = "list" /\ cyc[p].g.throws = 1
    /\ cyc[p].result.error = "Failed to fetch Gmail threads"
    /\ AuditStatus(p) = {"failed"}
    /\ OwnBefore(p) # {}

\* a step in which p calls syncUser for a user id that has no row in users,
\* no store failure being injected
StartsWithoutUser(p) ==
  /\ cyc[p].pc \in {"idle", "done"}
  /\ cyc'[p] # cyc[p]
  /\ cycles' = cycles + 1
  /\ cyc'[p].userId \notin users
  /\ fails' = fails

\* C11: syncUser for a user id without a row in users does not reject; it
\* returns success = false with error 'User not found' and zero counts, makes
\* no remote or blob-store call, and leaves an audit row with status failed
\* for that user.
C11_MissingUser ==
  [][\A p \in Procs :
       StartsWithoutUser(p) =>
         /\ ~cyc'[p].result.thrown
         /\ cyc'[p].pc = "done" =>
              /\ cyc'[p].result = [NoResult EXCEPT !.error = "User not found"]
              /\ \E l \in syncLogs' :
                   l.userId = cyc'[p].userId /\ l.status = "failed"
         /\ s3' = s3
         /\ ~cyc'[p].g.listed]_vars

\* the message rows in msgs for remote message mid of remote conversation
\* tid of user u, the thread rows being thrs
RowsFor(msgs, thrs, u, tid, mid) ==
  {m \in msgs : /\ m.gmailMessageId = mid
                /\ \E t \in thrs : /\ t.userId = u /\ t.gmailThreadId = tid
                                   /\ t.id = m.threadId}

\* the (conversation id, message id) pairs of the conversations the cycle
\* of p fetched
RemoteMessages(p) ==
  UNION {{<<tid, GmailThread(tid).messages[i].id>> :
            i \in DOMAIN GmailThread(tid).messages} : tid \in Fetched(p)}

\* the fetched remote messages that had no row when the cycle of p started
MissingBefore(p) ==
  {x \in RemoteMessages(p) :
     RowsFor(cyc[p].g.preMessages, cyc[p].g.preThreads, cyc[p].userId, x[1], x[2]) = {}}

\* C12: after a cycle that returned success without a failing step, every
\* message of every fetched conversation has exactly one row (a message left
\* without a row by a failed step of an earlier cycle included), and
\* messagesSynced counts each message that had no row before exactly once.
C12_Retry ==
  \A p \in Procs :
    (/\ Succeeded(p) /\ cyc[p].g.listed
     /\ cyc[p].g.throws = 0
     /\ cyc[p].userId \in users) =>
      /\ \A x \in RemoteMessages(p) :
           Cardinality(RowsFor(messages, threads, cyc[p].userId, x[1], x[2])) = 1
      /\ cyc[p].result.messagesSynced = Cardinality(MissingBefore(p))

\* the previous cycle had a failing step and left a conversation row without
\* the row of one of its messages; this cycle inserted and counted it
C12_Witness ==
  \E p \in Procs :
    /\ Succeeded(p) /\ cyc[p].g.listed /\ cyc[p].g.throws = 0
    /\ cyc[p].userId \in users
    /\ cyc[p].g.prev.valid /\ cyc[p].g.prev.throws > 0
    /\ cyc[p].result.messagesSynced = 1
    /\ \E x \in MissingBefore(p) :
         /\ x[1] \in Range(cyc[p].g.prev.remote)
         /\ \E t \in OwnBefore(p) : t.gmailThreadId = x[1]
         /\ Cardinality(RowsFor(messages, threads, cyc[p].userId, x[1], x[2])) = 1

\* the rows of a table that were inserted since the cycle of p started (row
\* ids are never reused)
InsertedSince(rows, before) == {r \in rows : \A b \in before : b.id # r.id}

\* C13: after a cycle that returned success (the account still there) the
\* three counts equal the numbers of thread, message and attachment rows the
\* cycle inserted, the number of body puts equals the number of inserted
\* messages with an HTML body, and the audit row has status success and the
\* same threadsSynced and messagesSynced.
C13_CountAccuracy ==
  \A p \in Procs :
    (Succeeded(p) /\ cyc[p].userId \in users) =>
      LET newThreads == InsertedSince(threads, cyc[p].g.preThreads)
          newMessages == InsertedSince(messages, cyc[p].g.preMessages)
          newAttachments == InsertedSince(attachments, cyc[p].g.preAttachments)
      IN /\ cyc[p].result.threadsSynced = Cardinality(newThreads)
         /\ cyc[p].result.messagesSynced = Cardinality(newMessages)
         /\ cyc[p].result.attachmentsSynced = Cardinality(newAttachments)
         /\ cyc[p].g.bodyPuts =
              Cardinality({m \in newMessages : m.bodyS3Key # NULL})
         /\ \E l \in syncLogs :
              /\ l.id = cyc[p].syncLogId
              /\ l.status = "success"
              /\ l.threadsSynced = cyc[p].result.threadsSynced
              /\ l.messagesSynced = cyc[p].result.messagesSynced

\* a step of p that ends the write part of syncThread after the lookup had
\* found no row, without a throw
WritesAbsent(p) ==
  /\ cyc[p].pc = "threadWrite"
  /\ cyc[p].existingThread = {}
  /\ cyc'[p] # cyc[p]
  /\ cyc'[p].g.throws = cyc[p].g.throws

\* C14: nothing excludes two cycles of the same user from one another: a
\* cycle that has looked a conversation up and found it absent inserts a
\* thread row for it at its next step whatever the other cycle has inserted
\* in between, so both cycles can find the same conversation absent and both
\* insert it.
C14_UpsertRace ==
  [][\A p \in Procs :
       WritesAbsent(p) =>
         \E t \in threads' \ threads :
           /\ t.userId = cyc[p].userId
           /\ t.gmailThreadId = cyc[p].gmailThreads[cyc[p].ti].id
           /\ cyc'[p].threadId = t.id]_vars

\* both cycles found the conversation absent and both inserted it: each
\* cycle works under a thread row of its own for the same conversation
C14_Witness ==
  /\ cyc[1].userId = cyc[2].userId
  /\ cyc[1].pc = "msg" /\ cyc[2].pc = "msg"
  /\ cyc[1].existingThread = {} /\ cyc[2].existingThread = {}
  /\ \E t1, t2 \in threads :
       /\ t1.id = cyc[1].threadId /\ t2.id = cyc[2].threadId
       /\ t1.id # t2.id
       /\ t1.userId = t2.userId /\ t1.gmailThreadId = t2.gmailThreadId

\* C15: an audit row that has been finalized with status success or failed
\* is never changed and never deleted by a later step.
C15_Finality ==
  [][\A l \in syncLogs : l.status \in {"success", "failed"} => l \in syncLogs']_vars

\* a step that sets an audit row to status cancelled
Cancels == \E l \in syncLogs' \ syncLogs : l.status = "cancelled"

C16_Step ==
  Cancels =>
    /\ \E l \in syncLogs :
         syncLogs' = (syncLogs \ {l})
                       \cup {[l EXCEPT !.status = "cancelled", !.completedAt = clock]}
    /\ UNCHANGED <<users, lastSyncAt, labels, threads, threadLabels, messages,
                   attachments, s3, seq, clock>>
    /\ \A p \in Procs :
         cyc'[p] = [cyc[p] EXCEPT !.g = [@ EXCEPT !.cancelled = cyc'[p].g.cancelled]]

C16_End(p) ==
  (/\ cyc[p].pc = "done"
   /\ cyc[p].g.cancelled
   /\ cyc[p].g.throws = 0
   /\ cyc[p].userId \in users) =>
    /\ cyc[p].result = [success |-> TRUE,
                        threadsSynced |-> cyc[p].tot.threadsSynced,
                        messagesSynced |-> cyc[p].tot.messagesSynced,
                        attachmentsSynced |-> cyc[p].tot.attachmentsSynced,
                        error |-> NULL, thrown |-> FALSE]
    /\ cyc[p].g.listed
    /\ cyc[p].g.visited = DOMAIN cyc[p].gmailThreads
    /\ cyc[p].result.threadsSynced =
         Cardinality(InsertedSince(threads, cyc[p].g.preThreads))
    /\ DeletedThreads(cyc[p].userId, cyc[p].syncStartTime) = {}
    /\ lastSyncAt[cyc[p].userId] = cyc[p].syncStartTime

\* C16: a call of cancelSync changes nothing but the status and the
\* completion time of the audit row it names; a cycle whose audit row was
\* cancelled while it ran, and none of whose steps fails, still processes
\* every fetched conversation, prunes, sets lastSyncAt and returns its
\* counts with success = true.
C16_StatusFlip ==
  /\ [][C16_Step]_vars
  /\ [](\A p \in Procs : C16_End(p))

\* the audit row of a cycle was cancelled while the cycle ran; the cycle
\* has inserted a conversation, pruned another one and returned success
C16_Witness ==
  \E p \in Procs :
    /\ Succeeded(p) /\ cyc[p].g.cancelled
    /\ cyc[p].result.threadsSynced = 1
    /\ cyc[p].g.pruned # {}
    /\ lastSyncAt[cyc[p].userId] = cyc[p].syncStartTime

\* the attachment rows the cycles of the callers have inserted
SyncedAttachments ==
  {a \in attachments :
     \E m \in messages : \E t \in threads :
       a.messageId = m.id /\ m.threadId = t.id /\ t.userId \in Callers}

\* C17: no two attachment rows inserted by the cycles share
\* (messageId, gmailAttachmentId).
C17_AttachmentUniqueness ==
  \A a1, a2 \in SyncedAttachments :
    (a1.messageId = a2.messageId /\ a1.gmailAttachmentId = a2.gmailAttachmentId)
      => a1 = a2

\* the users a scheduled run had to select, from the state of the store at
\* its select: both tokens, and never synced or synced longer ago than the
\* interval
Due(s) ==
  {u \in users :
     /\ u \in oauthTokens
     /\ \/ s.g.lastSyncAt[u] = 0
        \/ s.g.now - s.g.lastSyncAt[u] > SYNC_INTERVAL_MINUTES}

\* the number of positions of the sequence q that hold x
Occurrences(q, x) == Cardinality({k \in 1..Len(q) : q[k] = x})

\* a step that starts a cycle belongs to the loop of a scheduled run and
\* starts the cycle of the next selected user; a step that takes the outcome
\* of a cycle, whatever it is, moves the loop to the user after it
C18_Step ==
  /\ cycles' # cycles =>
       /\ sched.pc = "loop" /\ sched'.pc = "await"
       /\ sched.i = Len(sched.g.started) + 1
       /\ cyc'[1].userId = sched.usersNeedingSync[sched.i]
       /\ sched'.g.started = Append(sched.g.started, cyc'[1].userId)
  /\ (sched.pc = "await" /\ sched'.pc # "await") =>
       /\ cyc[1].pc = "done"
       /\ sched'.pc = "loop"
       /\ sched'.i = sched.i + 1
       /\ sched'.usersNeedingSync = sched.usersNeedingSync
       /\ sched'.successCount + sched'.errorCount =
            sched.successCount + sched.errorCount + 1

C18_End ==
  (sched.pc = "responded" /\ sched.status = 200) =>
    /\ \A u \in UserIds :
         Occurrences(sched.g.started, u) = IF u \in Due(sched) THEN 1 ELSE 0
    /\ Len(sched.g.results) = Len(sched.g.started)
    /\ sched.successCount = Occurrences(sched.g.results, "success")
    /\ sched.successCount + sched.errorCount = sched.totalUsers
    /\ sched.totalUsers = Cardinality(Due(sched))

\* C18: a scheduled run that answers 200 has started exactly one cycle, one
\* after another, for every user with both tokens whose lastSyncAt was null
\* or older than the interval, and none for another user; the cycle of a
\* user that fails or throws is counted as an error and the loop goes on to
\* the next user; successCount + errorCount = totalUsers = the number of
\* selected users.
C18_ScheduledBatch ==
  /\ [][C18_Step]_vars
  /\ [](C18_End)

\* a run selected both users, the cycle of the first one threw or failed,
\* the cycle of the second one succeeded, and the response counts 1 and 1
C18_Witness ==
  /\ sched.pc = "responded" /\ sched.status = 200
  /\ sched.totalUsers = 2
  /\ sched.g.results[1] \in {"threw", "failed"}
  /\ sched.g.results[2] = "success"
  /\ sched.successCount = 1 /\ sched.errorCount = 1

\* a step in which the scheduled handler accepts a request and selects the
\* users of a run
SelectsUsers == sched.pc \in {"off", "responded"} /\ sched'.pc = "loop"

\* C19: when a scheduled run selects its users, every user whose last cycle
\* started by a scheduled run returned success = false, and who still has
\* both tokens, is among the selected users.
C19_RetryFailed ==
  [][SelectsUsers =>
       \A u \in sched.g.failed \cap oauthTokens :
         u \in Range(sched'.usersNeedingSync)]_vars

\* a step in which the scheduled handler takes a request
TakesRequest == sched.pc \in {"off", "responded"} /\ sched'.g.runs # sched.g.runs

\* the request is a POST that carries the configured secret
CarriesSecret(req, cronSecret) ==
  /\ req.method = "POST"
  /\ cronSecret = "secret"
  /\ req.authorization = "Bearer secret"

\* C20: a request that is not a POST carrying 'Authorization: Bearer
\* <CRON_SECRET>' with the configured secret is answered 405 or 401, selects
\* no user and changes nothing in the store; a cycle is started only in a
\* run whose request carried the secret.
C20_Authorization ==
  [][/\ (TakesRequest /\ ~CarriesSecret(sched'.req, sched.cronSecret)) =>
          /\ sched'.pc = "responded"
          /\ sched'.status \in {405, 401}
          /\ sched'.usersNeedingSync = <<>>
          /\ UNCHANGED <<db, s3, seq, clock, cyc, cycles>>
     /\ (TakesRequest /\ sched'.pc = "loop") =>
          CarriesSecret(sched'.req, sched.cronSecret)]_vars

\* the rows of syncLogs that a step inserts, deletes or changes
TouchedSyncLogs == (syncLogs' \ syncLogs) \cup (syncLogs \ syncLogs')

\* the response of a step of the router shows only rows of syncLogs owned by
\* the user of the session
OwnResponse ==
  LET r == api'.response IN
  api'.response # api.response =>
    /\ (r.op = "getSyncProgress" /\ "syncLog" \in DOMAIN r) =>
         \A l \in syncLogs : l.id = r.syncLog.id => l.userId = api'.userId
    /\ r.op = "getSyncStatus" =>
         \A x \in r.recentSyncs :
           \A l \in syncLogs : l.id = x.id => l.userId = api'.userId

\* C21: every step of the sync router made with the session of user u
\* changes only the lastSyncAt of u and rows of syncLogs owned by u, and
\* returns only rows of syncLogs owned by u; getSyncProgress and cancelSync
\* with the id of a row of another user neither return nor change that row.
C21_UserIsolation ==
  [][/\ \A l \in TouchedSyncLogs : l.userId = api.userId
     /\ \A u \in UserIds : lastSyncAt'[u] # lastSyncAt[u] => u = api.userId
     /\ OwnResponse]_vars

\* the keys that uploadAttachment has returned contain only characters of
\* the class and slashes
SafeKeys ==
  \A k \in 1..Len(lib.keys) :
    \A i \in 1..Len(lib.keys[k]) : lib.keys[k][i] \in SafeChars \cup {"/"}

\* two calls with the same tuple return the same key
SameKeys == \A j, k \in 1..Len(lib.keys) : lib.keys[j] = lib.keys[k]

\* the key of uploadAttachment is the key of generateAttachmentKey
GeneratedKey ==
  \A k \in 1..Len(lib.keys) :
    \A j \in 1..Len(lib.generated) : lib.keys[k] = lib.generated[j]

\* C22: for every tuple (userId, messageId, attachmentId, filename) the key
\* that uploadAttachment returns contains only characters of [A-Za-z0-9._-]
\* and slashes, is not longer than the key length limit, is the same on
\* every call, and is the key of generateAttachmentKey.
C22_KeySafety ==
  lib.fn = "keys" =>
    /\ SafeKeys
    /\ \A k \in 1..Len(lib.keys) : Len(lib.keys[k]) <= KeyLengthLimit
    /\ SameKeys
    /\ GeneratedKey

\* the positions of the parts of type text/html that carry body data
HtmlParts(tree) ==
  {i \in 1..Len(tree) : tree[i].mimeType = "text/html" /\ Truthy(tree[i].data)}

\* C23: for every payload, extractHtmlBody returns the decoded data of the
\* first part in depth-first pre-order that has type text/html and carries
\* body data, whatever parts come before it, and null when the payload has
\* no such part.
C23_BodyExtraction ==
  (lib.fn = "mime" /\ lib.returned) =>
    LET html == HtmlParts(lib.payload) IN
    IF html = {} THEN lib.htmlBody = NULL
    ELSE lib.htmlBody =
           Base64Decode(lib.payload[CHOOSE i \in html : \A j \in html : i <= j].data)

\* the thread row t with its lastSeenAt left out
SaveLastSeenAt(t) == [t EXCEPT !.lastSeenAt = 0]

\* a step of p that writes the thread row of a conversation that has one
\* changes lastSeenAt of rows and nothing else; a step that looks at a
\* message that has a row changes no message, no attachment and no blob
C24_Step(p) ==
  /\ (cyc[p].pc = "threadWrite" /\ cyc[p].existingThread # {}) =>
       /\ {SaveLastSeenAt(t) : t \in threads'} = {SaveLastSeenAt(t) : t \in threads}
       /\ Cardinality(threads') = Cardinality(threads)
       /\ \A t \in threads' :
            t \notin threads =>
              /\ t.id \in {x.id : x \in cyc[p].existingThread}
              /\ t.lastSeenAt = cyc[p].syncStartTime
       /\ UNCHANGED <<threadLabels, messages, attachments, s3>>
  /\ (cyc[p].pc = "msg" /\ cyc'[p].g.last = "exists") =>
       /\ UNCHANGED <<messages, attachments, s3, threads, threadLabels>>
       /\ cyc'[p].g.puts = cyc[p].g.puts
       /\ Counted(cyc'[p]) = Counted(cyc[p])

\* C24: when a cycle comes to a remote conversation that has a row, the only
\* field of the row it changes is lastSeenAt, and the thread_labels rows stay
\* as they are, whatever the conversation now looks like; when it comes to a
\* remote message that has a row, it changes no message row, inserts no
\* attachment row and puts no blob.
C24_NoRefresh == [][\A p \in Procs : C24_Step(p)]_vars

\* a clean cycle has seen conversation t1 again: its row has the new
\* lastSeenAt but still says read, although the remote message m1 is now
\* unread and has two attachments, and it still has no UNREAD label row and
\* no attachment row
C24_Witness ==
  \E p \in Procs :
    /\ Succeeded(p)
    /\ cyc[p].g.throws = 0
    /\ SomeLabel(GmailThread("t1"), "UNREAD")
    /\ \E t \in threads :
         /\ t.userId = cyc[p].userId /\ t.gmailThreadId = "t1"
         /\ ~t.isUnread
         /\ t.lastSeenAt = cyc[p].syncStartTime
         /\ t.lastSeenAt > 1
         /\ \A tl \in threadLabels :
              tl.threadId = t.id =>
                \A l \in labels : l.id = tl.labelId => l.labelId # "UNREAD"
         /\ \E m \in messages :
              /\ m.threadId = t.id /\ m.gmailMessageId = "m1"
              /\ ~m.isUnread
              /\ Len(GmailMessage("m1").parts) = 2
              /\ \A a \in attachments : a.messageId # m.id

\* the cycles of p and q are both under way for the same user and have both
\* fetched the same listing, which held every remote conversation
SameListing(p, q) ==
  /\ p # q
  /\ cyc[p].pc \notin {"idle", "done"} /\ cyc[q].pc \notin {"idle", "done"}
  /\ cyc[p].userId = cyc[q].userId
  /\ cyc[p].g.listed /\ cyc[q].g.listed
  /\ cyc[p].g.remote = cyc[q].g.remote
  /\ FullBound(p)

\* C25: while two cycles of one user run at once over the same full-bound
\* listing, the prune step of neither deletes a thread row whose remote id
\* is in the listing.
C25_NoWrongfulPrune ==
  [][\A p, q \in Procs :
       (SameListing(p, q) /\ cyc[p].pc = "cleanup") =>
         \A t \in threads \ threads' :
           ~(t.userId = cyc[p].userId
             /\ t.gmailThreadId \in Range(cyc[p].g.remote))]_vars

\* C26: every thread_labels row links a thread and a label of the same
\* user, also when two users have a label with the same remote label id.
C26_SameOwnerLabels ==
  \A tl \in threadLabels :
    \A t \in threads : \A l \in labels :
      (t.id = tl.threadId /\ l.id = tl.labelId) => t.userId = l.userId

\* the cycle of p was clean: it returned success, no step of it failed, and
\* its listing held every remote conversation
CleanCycle(p) ==
  /\ Succeeded(p)
  /\ cyc[p].g.throws = 0
  /\ FullBound(p)
  /\ cyc[p].userId \in users

\* the store mirrors the remote conversation tid of user u: one thread row,
\* one message row for every message, and for every message at least
\* `least` and at most `most` attachment rows for every attachment id
Mirrors(u, tid, least, most) ==
  LET rows == {t \in threads : t.userId = u /\ t.gmailThreadId = tid}
      gmailMessages == GmailThread(tid).messages
  IN /\ Cardinality(rows) = 1
     /\ \A t \in rows : \A i \in DOMAIN gmailMessages :
          LET ms == {m \in messages : m.threadId = t.id
                                      /\ m.gmailMessageId = gmailMessages[i].id}
          IN /\ Cardinality(ms) = 1
             /\ \A m \in ms : \A a \in Range(gmailMessages[i].parts) :
                  LET as == {x \in attachments : x.messageId = m.id
                                                 /\ x.gmailAttachmentId = a}
                  IN Cardinality(as) >= least /\ Cardinality(as) <= most

\* C27: after a clean full-bound cycle, whatever failed in earlier cycles,
\* every remote conversation has exactly one thread row, every remote
\* message exactly one message row, every attachment id of every remote
\* message exactly one attachment row, and no thread row of the user is for
\* a conversation outside the listing.
C27_Convergence ==
  \A p \in Procs :
    CleanCycle(p) =>
      /\ \A tid \in Range(cyc[p].g.remote) : Mirrors(cyc[p].userId, tid, 1, 1)
      /\ \A t \in threads :
           t.userId = cyc[p].userId => t.gmailThreadId \in Range(cyc[p].g.remote)

\* the cycle of p has ended with success = false, and its user has a row
ReturnedFailure(p) ==
  /\ cyc[p].pc = "done"
  /\ ~cyc[p].result.thrown
  /\ ~cyc[p].result.success
  /\ cyc[p].userId \in users

\* C28: when syncUser has returned success = false, whatever step failed,
\* the cycle has not changed the lastSyncAt of its user and has deleted no
\* thread row.
C28_FailedCycleFrame ==
  \A p \in Procs :
    ReturnedFailure(p) =>
      /\ lastSyncAt[cyc[p].userId] = cyc[p].g.preLastSyncAt
      /\ cyc[p].g.pruned = {}

\* C29: once a call of syncUser that has written an audit row with status
\* running has ended, by returning or by throwing, that row has status
\* success or failed and its completion time is set.
C29_AuditFinalized ==
  \A p \in Procs :
    (cyc[p].pc = "done" /\ cyc[p].syncLogId # 0 /\ cyc[p].userId \in users) =>
      \A l \in syncLogs :
        l.id = cyc[p].syncLogId =>
          l.status \in {"success", "failed"} /\ l.completedAt # 0

\* C30: in every state that cycles reach, with failures and prunes among
\* them, the bodyS3Key of every message row that has one and the s3Key of
\* every attachment row name an object that was put into the blob store.
C30_NoDanglingKey ==
  /\ \A m \in messages : m.bodyS3Key # NULL => m.bodyS3Key \in s3
  /\ \A a \in attachments : a.s3Key \in s3

\* a cycle has pruned a conversation, has stored a message with its body
\* and an attachment, has seen the upload of another attachment of that
\* message throw, and has ended
C30_Witness ==
  \E p \in Procs :
    /\ cyc[p].pc = "done"
    /\ cyc[p].g.pruned # {}
    /\ cyc[p].g.throws > 0
    /\ \E m \in messages \ cyc[p].g.preMessages :
         /\ m.bodyS3Key # NULL
         /\ \E k \in DOMAIN cyc[p].g.attOut : cyc[p].g.attOut[k] = "upload throws"
         /\ \E a \in attachments : a.messageId = m.id /\ a.s3Key \in s3
====
